---- MODULE Spec2Model ----
(***************************************************************************)
(* Model of the hotel-booking front end: the favorites route handlers      *)
(* (GET / POST / DELETE over the user_favorites collection), the vendor    *)
(* response normalizer of lib/aoryx-client.ts and the results page's       *)
(* filter/sort memo.                                                       *)
(*                                                                         *)
(* JavaScript values are tagged records (t = "null", "undefined",          *)
(* "string", "number", "boolean", "array", "object"); strings are          *)
(* sequences of one-character strings so that trim, parseFloat and         *)
(* includes are computed, not assumed.                                     *)
(***************************************************************************)
EXTENDS Integers, Sequences, FiniteSets, TLC

VARIABLES
  \* favorites route
  storage, nextId, clock, reqs, nStarted, lastResp,
  \* vendor client: the function applied, its input, its outcome, its position
  cOp, cIn, cOut, cPc,
  \* results page: the component's state
  result, sortBy, selectedRatings, priceRangeOverride,
  \* one coreRequest call in time: its abort timer, the time since it started,
  \* the HTTP requests it has issued
  timer, elapsed, fetches,
  \* results page: the search effect's state and its runs
  error, loading, searches,
  \* hotel details page: the room effect's state and its runs
  roomOptions, roomsError, roomsLoading, roomEffects,
  \* hotel details page: the hotel-info and coordinates effects' state and runs
  \* (hotelInfo is written pageHotelInfo: hotelInfo names the client function)
  pageHotelInfo, hotelError, fallbackCoordinates, infoEffects, coordEffects,
  \* useAmdRates: the hook's state and its effect's runs (the hook's loading is
  \* written amdLoading: loading names the results page's state)
  rates, amdLoading, amdEffects

favVars == <<storage, nextId, clock, reqs, nStarted, lastResp>>
cliVars == <<cOp, cIn, cOut, cPc>>
resVars == <<result, sortBy, selectedRatings, priceRangeOverride>>
netVars == <<timer, elapsed, fetches>>
hotelInfoVars == <<pageHotelInfo, hotelError, fallbackCoordinates, infoEffects, coordEffects>>
amdVars == <<rates, amdLoading, amdEffects>>
pageVars ==
  <<error, loading, searches, roomOptions, roomsError, roomsLoading, roomEffects,
    hotelInfoVars, amdVars>>
vars ==
  <<storage, nextId, clock, reqs, nStarted, lastResp, cOp, cIn, cOut, cPc,
    result, sortBy, selectedRatings, priceRangeOverride, timer, elapsed, fetches,
    error, loading, searches, roomOptions, roomsError, roomsLoading, roomEffects,
    pageHotelInfo, hotelError, fallbackCoordinates, infoEffects, coordEffects,
    rates, amdLoading, amdEffects>>

\* what the handlers of one part leave alone
exceptFav == <<cliVars, resVars, netVars, pageVars>>
exceptCli == <<favVars, resVars, netVars, pageVars>>
exceptRes == <<favVars, cliVars, netVars, pageVars>>
exceptNet == <<favVars, resVars, pageVars>>
exceptPage == <<favVars, cliVars, netVars, amdVars>>
exceptAmd ==
  <<favVars, cliVars, resVars, netVars, error, loading, searches, roomOptions,
    roomsError, roomsLoading, roomEffects, hotelInfoVars>>

----------------------------------------------------------------------------
(* JavaScript values *)

JNull == [t |-> "null"]
JUndef == [t |-> "undefined"]
JStr(s) == [t |-> "string", s |-> s]
JNum(n) == [t |-> "number", n |-> n]
JBool(b) == [t |-> "boolean", b |-> b]
JArr(a) == [t |-> "array", a |-> a]
JObj(o) == [t |-> "object", o |-> o]

IsWhite(c) == c = " "

RECURSIVE TrimStart(_)
TrimStart(s) ==
  IF s # <<>> /\ IsWhite(Head(s)) THEN TrimStart(Tail(s)) ELSE s

RECURSIVE TrimEnd(_)
TrimEnd(s) ==
  IF s # <<>> /\ IsWhite(s[Len(s)]) THEN TrimEnd(SubSeq(s, 1, Len(s) - 1)) ELSE s

Trim(s) == TrimEnd(TrimStart(s))

----------------------------------------------------------------------------
(* Favorites route: bounds and inputs *)

MaxReq == 3

\* session?.user?.id: absent, or a string (possibly with surrounding blanks)
SessionIds == {JUndef, JStr(<<>>), JStr(<<"u">>), JStr(<<" ", "u">>), JStr(<<"v">>)}

\* hotelCode as it arrives: query parameter (string or null) or body field (unknown)
RawHotelCodes ==
  {JNull, JStr(<<" ">>), JStr(<<"a">>), JStr(<<"a", " ">>), JStr(<<"b">>), JNum(7)}

\* the limit query parameter after Number(): null -> 0, a number, or NaN
LimitParams == {[k |-> "absent"], [k |-> "nan"], [k |-> "num", n |-> 2], [k |-> "num", n |-> 100]}

NoStr == <<>>

\* JavaScript truthiness of a string-or-undefined value
Truthy(v) ==
  CASE v.t = "string" -> v.s # <<>>
    [] v.t = "number" -> v.n # 0
    [] v.t = "boolean" -> v.b
    [] v.t \in {"array", "object"} -> TRUE
    [] OTHER -> FALSE

parseString(value) ==
  IF value.t # "string" THEN NoStr
  ELSE Trim(value.s)

parseHotelCode(value) == parseString(value)

normalizeUserId(userId) == [userIdString |-> Trim(userId.s)]

Min(a, b) == IF a < b THEN a ELSE b
Max(a, b) == IF a > b THEN a ELSE b

clampLimit(value, min, max) == Min(Max(value, min), max)

\* Number(limitParam); Number.isFinite(rawLimit) ? rawLimit : 24; clamp to 1..48
LimitOf(p) ==
  LET rawFinite == p.k # "nan"
      rawLimit == IF p.k = "num" THEN p.n ELSE 0
  IN clampLimit(IF rawFinite THEN rawLimit ELSE 24, 1, 48)

----------------------------------------------------------------------------
(* The user_favorites collection *)

MatchingAnyUser(coll, u, h) == {r \in coll : r.hotelCode = h}

\* the filter {userIdString, hotelCode}, lines 50, 92, 114 and 141
Matching(coll, u, h) == {r \in coll : r.userIdString = u /\ r.hotelCode = h}

\* findOne({userIdString, hotelCode}): the _id of a matching document, 0 for null
FindOneIds(coll, u, h) ==
  IF Matching(coll, u, h) = {} THEN {0} ELSE {r.id : r \in Matching(coll, u, h)}

DeleteOneByIdNoop(coll, id) == coll

\* deleteOne({_id})
DeleteOneById(coll, id) == {r \in coll : r.id # id}

DeleteOneByKeyNoop(coll, u, h) == coll

\* deleteOne({userIdString, hotelCode}): removes one matching document
DeleteOneByKey(coll, u, h) ==
  IF Matching(coll, u, h) = {} THEN coll
  ELSE coll \ {CHOOSE r \in Matching(coll, u, h) : TRUE}

InsertBlind(coll, u, h, id, now) ==
  coll \cup {[id |-> id, userIdString |-> u, hotelCode |-> h, savedAt |-> now]}

\* updateOne({userIdString, hotelCode}, {$set: payload}, {upsert: true}) on a
\* collection keyed by (userIdString, hotelCode): the matching document is
\* updated in place, and one is inserted only when none matches.
UpdateOneUpsert(coll, u, h, id, now) ==
  IF Matching(coll, u, h) = {}
  THEN coll \cup {[id |-> id, userIdString |-> u, hotelCode |-> h, savedAt |-> now]}
  ELSE {IF r \in Matching(coll, u, h) THEN [r EXCEPT !.savedAt = now] ELSE r : r \in coll}

RECURSIVE SortBySavedAtDesc(_)
SortBySavedAtDesc(S) ==
  IF S = {} THEN <<>>
  ELSE LET top == CHOOSE r \in S : \A q \in S : q.savedAt <= r.savedAt
       IN <<top>> \o SortBySavedAtDesc(S \ {top})

\* find({userIdString}).sort({savedAt: -1}).limit(limit).toArray(), mapped to items
FindItems(coll, u, limit) ==
  LET docs == SortBySavedAtDesc({r \in coll : r.userIdString = u})
      n == Min(limit, Len(docs))
  IN [i \in 1..n |-> docs[i].hotelCode]

----------------------------------------------------------------------------
(* Requests *)

Idle ==
  [pc |-> "idle", method |-> "GET", uid |-> NoStr, hotel |-> NoStr, limit |-> 0,
   existing |-> 0, now |-> 0, ops |-> 0]

Done == [Idle EXCEPT !.pc = "done"]

NoResp ==
  [method |-> "none", status |-> 0, isFavorite |-> "none", items |-> <<>>,
   authed |-> FALSE, hasHotel |-> FALSE, uid |-> NoStr, hotel |-> NoStr,
   present |-> FALSE, before |-> FALSE, ops |-> 0, prev |-> "none",
   prevBefore |-> FALSE, foundOnWrite |-> FALSE]

InFlight == {i \in 1..MaxReq : reqs[i].pc \notin {"idle", "done"}}

Present(coll, u, h) == Matching(coll, u, h) # {}

BoolStr(b) == IF b THEN "true" ELSE "false"

\* what the handler does before it touches the collection: 401, 400 or go on (200)
GetGuard(sess) == IF ~Truthy(sess) THEN 401 ELSE 200

PostGuardSwapped(sess, hotelCode) ==
  IF hotelCode = NoStr THEN 400 ELSE IF ~Truthy(sess) THEN 401 ELSE 200

PostGuard(sess, hotelCode) ==
  IF ~Truthy(sess) THEN 401 ELSE IF hotelCode = NoStr THEN 400 ELSE 200

DeleteGuard(sess, hotelCode) ==
  IF ~Truthy(sess) THEN 401 ELSE IF hotelCode = NoStr THEN 400 ELSE 200

\* a response produced before any collection access
Rejected(method, status, sess, hotelCode) ==
  [NoResp EXCEPT !.method = method, !.status = status, !.authed = Truthy(sess),
                 !.hasHotel = (hotelCode # NoStr)]

\* a response produced by request r once its last collection access is done
Answered(r, isFavorite, items, coll) ==
  [NoResp EXCEPT !.method = r.method, !.status = 200, !.isFavorite = isFavorite,
                 !.items = items, !.authed = TRUE, !.hasHotel = (r.hotel # NoStr),
                 !.uid = r.uid, !.hotel = r.hotel,
                 !.present = Present(coll, r.uid, r.hotel),
                 !.before = (r.existing # 0), !.ops = r.ops + 1]

\* the collection outlives the process: it is empty, or already holds the
\* favorite an earlier POST of user "u" saved for hotel "a"
SavedEarlier == [id |-> 1, userIdString |-> <<"u">>, hotelCode |-> <<"a">>, savedAt |-> 1]

\* no vendor call is made
CliIdle == cOp = "none" /\ cIn = JNull /\ cOut = JNull /\ cPc = "idle"

\* no coreRequest call under way
NetIdle == timer = "none" /\ elapsed = 0 /\ fetches = 0

\* the useState initial values of the two pages' load state; no effect has run
PageIdle ==
  /\ error = JNull /\ loading = FALSE /\ searches = <<>>
  /\ roomOptions = JArr(<<>>) /\ roomsError = JNull /\ roomsLoading = FALSE
  /\ roomEffects = <<>>
  /\ pageHotelInfo = JNull /\ hotelError = JNull /\ fallbackCoordinates = JNull
  /\ infoEffects = <<>> /\ coordEffects = <<>>
  /\ rates = JNull /\ amdLoading = TRUE /\ amdEffects = <<>>

\* the useState initial values of the results page
ResIdle ==
  /\ result = JNull
  /\ sortBy = "rating-desc"
  /\ selectedRatings = {}
  /\ priceRangeOverride = JNull

FavInit ==
  /\ storage \in {{}, {SavedEarlier}}
  /\ nextId = 2
  /\ clock = 1
  /\ reqs = [i \in 1..MaxReq |-> Idle]
  /\ nStarted = 0
  /\ lastResp = NoResp

\* no favorites request is made
FavIdle == FavInit /\ storage = {}

Init == FavInit /\ CliIdle /\ ResIdle /\ NetIdle /\ PageIdle

\* GET, lines 37-74: the session check, then findOne (lines 50-51) or the list
\* query (lines 54-73). The handler reads the collection once, so it is one step.
Get(sess, raw, lim) ==
  LET i == nStarted + 1
      hotelCode == parseString(raw)
      r == [Idle EXCEPT !.method = "GET",
                        !.uid = normalizeUserId(sess).userIdString,
                        !.hotel = hotelCode]
  IN /\ nStarted < MaxReq
     /\ nStarted' = i
     /\ raw.t \in {"null", "string"}
     /\ reqs' = [reqs EXCEPT ![i] = Done]
     /\ IF GetGuard(sess) = 401
        THEN lastResp' = Rejected("GET", 401, sess, hotelCode)
        ELSE IF hotelCode # NoStr
        THEN \E doc \in FindOneIds(storage, r.uid, hotelCode) :
               lastResp' = Answered(r, BoolStr(doc # 0), <<>>, storage)
        ELSE lastResp' = Answered(r, "none", FindItems(storage, r.uid, LimitOf(lim)),
                                  storage)
     /\ UNCHANGED <<storage, nextId, clock>>

\* POST, lines 76-111: session check, body, hotelCode check, findOne, then the
\* branch on the document found and, when none was found, the payload
PostFindOne(sess, raw) ==
  LET i == nStarted + 1
      hotelCode == parseHotelCode(raw)
      r == [Idle EXCEPT !.method = "POST",
                        !.uid = normalizeUserId(sess).userIdString,
                        !.hotel = hotelCode, !.ops = 1]
  IN /\ nStarted < MaxReq
     /\ nStarted' = i
     /\ IF PostGuard(sess, hotelCode) # 200
        THEN /\ reqs' = [reqs EXCEPT ![i] = Done]
             /\ lastResp' = Rejected("POST", PostGuard(sess, hotelCode), sess, hotelCode)
             /\ UNCHANGED clock
        ELSE /\ \E doc \in FindOneIds(storage, r.uid, hotelCode) :
                  IF doc # 0
                  THEN /\ reqs' = [reqs EXCEPT ![i] =
                                     [r EXCEPT !.pc = "deleteOne", !.existing = doc]]
                       /\ UNCHANGED clock
                  ELSE /\ reqs' = [reqs EXCEPT ![i] =
                                     [r EXCEPT !.pc = "updateOne", !.now = clock + 1]]
                       /\ clock' = clock + 1
             /\ UNCHANGED lastResp
     /\ UNCHANGED <<storage, nextId>>

\* the response before this one was a POST toggle of the same (user, hotel)
PrevIsPostOn(u, h) ==
  lastResp.method = "POST" /\ lastResp.status = 200 /\ lastResp.uid = u /\ lastResp.hotel = h

PostAnswer(r, isFavorite, collBefore, collAfter) ==
  [Answered(r, isFavorite, <<>>, collAfter) EXCEPT
     !.prev = IF PrevIsPostOn(r.uid, r.hotel) THEN lastResp.isFavorite ELSE "none",
     !.prevBefore = PrevIsPostOn(r.uid, r.hotel) /\ lastResp.before,
     !.foundOnWrite = Present(collBefore, r.uid, r.hotel)]

\* POST, lines 94-97
PostDeleteOne(i) ==
  LET r == reqs[i]
      after == DeleteOneById(storage, r.existing)
  IN /\ r.pc = "deleteOne"
     /\ storage' = after
     /\ lastResp' = PostAnswer(r, "false", storage, after)
     /\ reqs' = [reqs EXCEPT ![i] = Done]
     /\ UNCHANGED <<nextId, clock, nStarted>>

\* POST, lines 113-122
PostUpdateOne(i) ==
  LET r == reqs[i]
      after == UpdateOneUpsert(storage, r.uid, r.hotel, nextId, r.now)
  IN /\ r.pc = "updateOne"
     /\ storage' = after
     /\ nextId' = IF after = {} \/ \A d \in after : d.id # nextId THEN nextId ELSE nextId + 1
     /\ lastResp' = PostAnswer(r, "true", storage, after)
     /\ reqs' = [reqs EXCEPT ![i] = Done]
     /\ UNCHANGED <<clock, nStarted>>

\* DELETE, lines 125-143: session check, hotelCode check, deleteOne
Delete(sess, raw) ==
  LET i == nStarted + 1
      hotelCode == parseString(raw)
      r == [Idle EXCEPT !.method = "DELETE",
                        !.uid = normalizeUserId(sess).userIdString,
                        !.hotel = hotelCode]
      after == DeleteOneByKey(storage, r.uid, hotelCode)
  IN /\ nStarted < MaxReq
     /\ nStarted' = i
     /\ raw.t \in {"null", "string"}
     /\ reqs' = [reqs EXCEPT ![i] = Done]
     /\ IF DeleteGuard(sess, hotelCode) # 200
        THEN /\ lastResp' = Rejected("DELETE", DeleteGuard(sess, hotelCode), sess, hotelCode)
             /\ UNCHANGED storage
        ELSE /\ storage' = after
             /\ lastResp' = Answered(r, "false", <<>>, after)
     /\ UNCHANGED <<nextId, clock>>

StartRequest ==
  \/ \E sess \in SessionIds, raw \in RawHotelCodes, lim \in LimitParams :
       Get(sess, raw, lim)
  \/ \E sess \in SessionIds, raw \in RawHotelCodes : PostFindOne(sess, raw)
  \/ \E sess \in SessionIds, raw \in RawHotelCodes : Delete(sess, raw)

StepRequest ==
  \E i \in 1..MaxReq :
    \/ PostDeleteOne(i)
    \/ PostUpdateOne(i)

\* requests of any users interleave at every collection access
FavNext == StartRequest \/ StepRequest

Next == FavNext /\ UNCHANGED exceptFav

Spec == Init /\ [][Next]_vars

\* requests handled one after another: none starts while another is in flight
FavNextSeq == (InFlight = {} /\ StartRequest) \/ StepRequest

NextSeq == FavNextSeq /\ UNCHANGED exceptFav

SpecSeq == Init /\ [][NextSeq]_vars

----------------------------------------------------------------------------
(* Strings and numbers of the vendor client (lib/aoryx-client.ts) *)

LowerAlpha ==
  <<"a", "b", "c", "d", "e", "f", "g", "h", "i", "j", "k", "l", "m",
    "n", "o", "p", "q", "r", "s", "t", "u", "v", "w", "x", "y", "z">>

UpperAlpha ==
  <<"A", "B", "C", "D", "E", "F", "G", "H", "I", "J", "K", "L", "M",
    "N", "O", "P", "Q", "R", "S", "T", "U", "V", "W", "X", "Y", "Z">>

ToLowerChar(c) ==
  IF \E i \in 1..26 : UpperAlpha[i] = c
  THEN LowerAlpha[CHOOSE i \in 1..26 : UpperAlpha[i] = c]
  ELSE c

ToUpperChar(c) ==
  IF \E i \in 1..26 : LowerAlpha[i] = c
  THEN UpperAlpha[CHOOSE i \in 1..26 : LowerAlpha[i] = c]
  ELSE c

ToLowerCase(s) == [i \in 1..Len(s) |-> ToLowerChar(s[i])]

\* String.prototype.includes
Includes(s, sub) ==
  \E i \in 0..(Len(s) - Len(sub)) : SubSeq(s, i + 1, i + Len(sub)) = sub

Digits == <<"0", "1", "2", "3", "4", "5", "6", "7", "8", "9">>

IsDigit(c) == \E i \in 1..Len(Digits) : Digits[i] = c

DigitValue(c) == (CHOOSE i \in 1..Len(Digits) : Digits[i] = c) - 1

\* the longest prefix of s made of digits
RECURSIVE DigitPrefix(_)
DigitPrefix(s) ==
  IF s # <<>> /\ IsDigit(Head(s)) THEN <<Head(s)>> \o DigitPrefix(Tail(s)) ELSE <<>>

RECURSIVE DigitsValue(_)
DigitsValue(ds) ==
  IF ds = <<>> THEN 0
  ELSE 10 * DigitsValue(SubSeq(ds, 1, Len(ds) - 1)) + DigitValue(ds[Len(ds)])

NaN == [finite |-> FALSE, n |-> 0]
Finite(n) == [finite |-> TRUE, n |-> n]

\* parseFloat on integer numerals: leading white space is skipped, an optional
\* sign and the longest run of digits are read, the rest is ignored; NaN when no
\* digit is read
parseFloat(s) ==
  LET t == TrimStart(s)
      neg == t # <<>> /\ Head(t) = "-"
      signed == t # <<>> /\ Head(t) \in {"-", "+"}
      body == IF signed THEN Tail(t) ELSE t
      ds == DigitPrefix(body)
  IN IF ds = <<>> THEN NaN
     ELSE Finite(IF neg THEN 0 - DigitsValue(ds) ELSE DigitsValue(ds))

RECURSIVE NatToStr(_)
NatToStr(n) ==
  IF n < 10 THEN <<Digits[n + 1]>> ELSE NatToStr(n \div 10) \o <<Digits[(n % 10) + 1]>>

\* String(value) of an integer
NumToStr(n) == IF n < 0 THEN <<"-">> \o NatToStr(0 - n) ELSE NatToStr(n)

TypeOf(v) ==
  CASE v.t \in {"null", "array", "object"} -> "object"
    [] v.t = "nan" -> "number"
    [] OTHER -> v.t

JNaN == [t |-> "nan"]

Nullish(v) == v.t \in {"null", "undefined"}

\* a ?? b ?? ... over a non-empty sequence of values
RECURSIVE Coalesce(_)
Coalesce(vs) ==
  IF Len(vs) = 1 \/ ~Nullish(Head(vs)) THEN Head(vs) ELSE Coalesce(Tail(vs))

HasKey(v, key) == v.t = "object" /\ \E i \in 1..Len(v.o) : v.o[i][1] = key

\* value.key of a value that is neither null nor undefined
Prop(v, key) ==
  IF HasKey(v, key)
  THEN v.o[CHOOSE i \in 1..Len(v.o) : v.o[i][1] = key /\ \A j \in (i + 1)..Len(v.o) : v.o[j][1] # key][2]
  ELSE JUndef

\* value?.key
PropOpt(v, key) == IF Nullish(v) THEN JUndef ELSE Prop(v, key)

\* the property names the client reads, as strings of characters
Key ==
  [Amount |-> <<"A", "m", "o", "u", "n", "t">>,
   TotalAmount |-> <<"T", "o", "t", "a", "l", "A", "m", "o", "u", "n", "t">>,
   Value |-> <<"V", "a", "l", "u", "e">>,
   Price |-> <<"P", "r", "i", "c", "e">>,
   Net |-> <<"N", "e", "t">>,
   NetAmount |-> <<"N", "e", "t", "A", "m", "o", "u", "n", "t">>,
   Currency |-> <<"C", "u", "r", "r", "e", "n", "c", "y">>,
   CurrencyCode |-> <<"C", "u", "r", "r", "e", "n", "c", "y", "C", "o", "d", "e">>,
   Curr |-> <<"C", "u", "r", "r">>,
   IsSuccess |-> <<"I", "s", "S", "u", "c", "c", "e", "s", "s">>,
   ExceptionMessage |-> <<"E", "x", "c", "e", "p", "t", "i", "o", "n", "M", "e", "s", "s", "a", "g", "e">>,
   StatusCode |-> <<"S", "t", "a", "t", "u", "s", "C", "o", "d", "e">>,
   Errors |-> <<"E", "r", "r", "o", "r", "s">>,
   GeneralInfo |-> <<"G", "e", "n", "e", "r", "a", "l", "I", "n", "f", "o">>,
   SessionId |-> <<"S", "e", "s", "s", "i", "o", "n", "I", "d">>,
   Monetary |-> <<"M", "o", "n", "e", "t", "a", "r", "y">>,
   Code |-> <<"C", "o", "d", "e">>,
   Hotels |-> <<"H", "o", "t", "e", "l", "s">>,
   Hotel |-> <<"H", "o", "t", "e", "l">>,
   Audit |-> <<"A", "u", "d", "i", "t">>,
   PropertyCount |-> <<"P", "r", "o", "p", "e", "r", "t", "y", "C", "o", "u", "n", "t">>,
   ResponseTime |-> <<"R", "e", "s", "p", "o", "n", "s", "e", "T", "i", "m", "e">>,
   Destination |-> <<"D", "e", "s", "t", "i", "n", "a", "t", "i", "o", "n">>,
   Text |-> <<"T", "e", "x", "t">>,
   HotelInfo |-> <<"H", "o", "t", "e", "l", "I", "n", "f", "o">>,
   Name |-> <<"N", "a", "m", "e">>,
   MinPrice |-> <<"M", "i", "n", "P", "r", "i", "c", "e">>,
   StarRating |-> <<"S", "t", "a", "r", "R", "a", "t", "i", "n", "g">>,
   Add1 |-> <<"A", "d", "d", "1">>,
   City |-> <<"C", "i", "t", "y">>,
   Image |-> <<"I", "m", "a", "g", "e">>,
   Lat |-> <<"L", "a", "t">>,
   Lon |-> <<"L", "o", "n">>,
   RoomDetails |-> <<"R", "o", "o", "m", "D", "e", "t", "a", "i", "l", "s">>,
   RoomDetail |-> <<"R", "o", "o", "m", "D", "e", "t", "a", "i", "l">>,
   HotelRooms |-> <<"H", "o", "t", "e", "l", "R", "o", "o", "m", "s">>,
   HotelRoom |-> <<"H", "o", "t", "e", "l", "R", "o", "o", "m">>,
   Rooms |-> <<"R", "o", "o", "m", "s">>,
   Room |-> <<"R", "o", "o", "m">>,
   RoomCode |-> <<"R", "o", "o", "m", "C", "o", "d", "e">>,
   RateKey |-> <<"R", "a", "t", "e", "K", "e", "y">>,
   RoomIndex |-> <<"R", "o", "o", "m", "I", "n", "d", "e", "x">>,
   Id |-> <<"I", "d">>,
   RoomName |-> <<"R", "o", "o", "m", "N", "a", "m", "e">>,
   RoomType |-> <<"R", "o", "o", "m", "T", "y", "p", "e">>,
   BoardType |-> <<"B", "o", "a", "r", "d", "T", "y", "p", "e">>,
   MealType |-> <<"M", "e", "a", "l", "T", "y", "p", "e">>,
   MealPlan |-> <<"M", "e", "a", "l", "P", "l", "a", "n">>,
   Meal |-> <<"M", "e", "a", "l">>,
   Board |-> <<"B", "o", "a", "r", "d">>,
   Refundable |-> <<"R", "e", "f", "u", "n", "d", "a", "b", "l", "e">>,
   IsRefundable |-> <<"I", "s", "R", "e", "f", "u", "n", "d", "a", "b", "l", "e">>,
   NonRefundable |-> <<"N", "o", "n", "R", "e", "f", "u", "n", "d", "a", "b", "l", "e">>,
   TotalPrice |-> <<"T", "o", "t", "a", "l", "P", "r", "i", "c", "e">>,
   RoomRate |-> <<"R", "o", "o", "m", "R", "a", "t", "e">>,
   NetRate |-> <<"N", "e", "t", "R", "a", "t", "e">>,
   NetPrice |-> <<"N", "e", "t", "P", "r", "i", "c", "e">>,
   AvailableRooms |-> <<"A", "v", "a", "i", "l", "a", "b", "l", "e", "R", "o", "o", "m", "s">>,
   RoomAvailable |-> <<"R", "o", "o", "m", "A", "v", "a", "i", "l", "a", "b", "l", "e">>,
   Availability |-> <<"A", "v", "a", "i", "l", "a", "b", "i", "l", "i", "t", "y">>,
   CancellationPolicy |-> <<"C", "a", "n", "c", "e", "l", "l", "a", "t", "i", "o", "n", "P", "o", "l", "i", "c", "y">>,
   CancelPolicy |-> <<"C", "a", "n", "c", "e", "l", "P", "o", "l", "i", "c", "y">>,
   CancellationText |-> <<"C", "a", "n", "c", "e", "l", "l", "a", "t", "i", "o", "n", "T", "e", "x", "t">>,
   Policy |-> <<"P", "o", "l", "i", "c", "y">>,
   Description |-> <<"D", "e", "s", "c", "r", "i", "p", "t", "i", "o", "n">>,
   Remark |-> <<"R", "e", "m", "a", "r", "k">>,
   HotelsInformation |-> <<"H", "o", "t", "e", "l", "s", "I", "n", "f", "o", "r", "m", "a", "t", "i", "o", "n">>,
   GeoCode |-> <<"G", "e", "o", "C", "o", "d", "e">>,
   DestinationId |-> <<"D", "e", "s", "t", "i", "n", "a", "t", "i", "o", "n", "I", "d">>,
   SystemId |-> <<"S", "y", "s", "t", "e", "m", "I", "d">>,
   Rating |-> <<"R", "a", "t", "i", "n", "g">>,
   Address1 |-> <<"A", "d", "d", "r", "e", "s", "s", "1">>,
   ImageUrl |-> <<"I", "m", "a", "g", "e", "U", "r", "l">>,
   HotelInformation |-> <<"H", "o", "t", "e", "l", "I", "n", "f", "o", "r", "m", "a", "t", "i", "o", "n">>,
   TripAdvisorRating |-> <<"T", "r", "i", "p", "A", "d", "v", "i", "s", "o", "r", "R", "a", "t", "i", "n", "g">>,
   TripAdvisorUrl |-> <<"T", "r", "i", "p", "A", "d", "v", "i", "s", "o", "r", "U", "r", "l">>,
   ImageUrls |-> <<"I", "m", "a", "g", "e", "U", "r", "l", "s">>,
   Address |-> <<"A", "d", "d", "r", "e", "s", "s">>,
   Line1 |-> <<"L", "i", "n", "e", "1">>,
   Line2 |-> <<"L", "i", "n", "e", "2">>,
   CountryCode |-> <<"C", "o", "u", "n", "t", "r", "y", "C", "o", "d", "e">>,
   CountryName |-> <<"C", "o", "u", "n", "t", "r", "y", "N", "a", "m", "e">>,
   CityName |-> <<"C", "i", "t", "y", "N", "a", "m", "e">>,
   StateCode |-> <<"S", "t", "a", "t", "e", "C", "o", "d", "e">>,
   ZipCode |-> <<"Z", "i", "p", "C", "o", "d", "e">>,
   Contact |-> <<"C", "o", "n", "t", "a", "c", "t">>,
   PhoneNo |-> <<"P", "h", "o", "n", "e", "N", "o">>,
   FaxNo |-> <<"F", "a", "x", "N", "o">>,
   Website |-> <<"W", "e", "b", "s", "i", "t", "e">>]

toStringValue(value) ==
  IF value.t = "string" /\ Trim(value.s) # <<>> THEN JStr(Trim(value.s))
  ELSE IF value.t = "number" THEN JStr(NumToStr(value.n))
  ELSE JNull

toNumber(value) ==
  IF value.t = "number" THEN value
  ELSE IF value.t = "string" /\ parseFloat(value.s).finite THEN JNum(parseFloat(value.s).n)
  ELSE JNull

\* Math.round of an integer is the integer
toInteger(value) == toNumber(value)

\* key.charAt(0).toUpperCase() + key.slice(1)
PascalKey(key) == IF key = <<>> THEN key ELSE <<ToUpperChar(Head(key))>> \o Tail(key)

RECURSIVE pascalizeKeys(_)
pascalizeKeys(value) ==
  IF Nullish(value) THEN value
  ELSE IF value.t = "array" THEN JArr([i \in 1..Len(value.a) |-> pascalizeKeys(value.a[i])])
  ELSE IF value.t = "object"
  THEN JObj([i \in 1..Len(value.o) |->
              <<PascalKey(value.o[i][1]), pascalizeKeys(value.o[i][2])>>])
  ELSE value

isRecord(value) == value.t = "object"

\* normalizeArray: [] for a falsy value, the array itself, or [value]
normalizeArray(value) ==
  IF ~Truthy(value) THEN <<>>
  ELSE IF value.t = "array" THEN value.a
  ELSE <<value>>

TrueWords == {<<"t", "r", "u", "e">>, <<"y", "e", "s">>, <<"y">>, <<"1">>}

FalseWords == {<<"f", "a", "l", "s", "e">>, <<"n", "o">>, <<"n">>, <<"0">>}

toBoolean(value) ==
  IF value.t = "boolean" THEN value
  ELSE IF value.t = "number" /\ value.n = 1 THEN JBool(TRUE)
  ELSE IF value.t = "number" /\ value.n = 0 THEN JBool(FALSE)
  ELSE IF value.t = "string"
          /\ ToLowerCase(Trim(value.s)) \in TrueWords THEN JBool(TRUE)
  ELSE IF value.t = "string"
          /\ ToLowerCase(Trim(value.s)) \in FalseWords THEN JBool(FALSE)
  ELSE JNull

MoneyKeys == <<Key.Amount, Key.TotalAmount, Key.Value, Key.Price, Key.Net, Key.NetAmount>>

CurrencyKeys == <<Key.Currency, Key.CurrencyCode, Key.Curr>>

\* value.K1 ?? value.K2 ?? ... for the keys, in order
GetFirst(value, keys) == Coalesce([i \in 1..Len(keys) |-> Prop(value, keys[i])])

extractMoney(value) ==
  IF TypeOf(value) \in {"number", "string"}
  THEN [amount |-> toNumber(value), currency |-> JNull]
  ELSE IF isRecord(value)
  THEN [amount |-> toNumber(GetFirst(value, MoneyKeys)),
        currency |-> toStringValue(GetFirst(value, CurrencyKeys))]
  ELSE [amount |-> JNull, currency |-> JNull]

RECURSIVE JoinWithSpace(_)
JoinWithSpace(parts) ==
  IF parts = <<>> THEN <<>>
  ELSE IF Len(parts) = 1 THEN Head(parts)
  ELSE Head(parts) \o <<" ">> \o JoinWithSpace(Tail(parts))

PolicyKeys == <<Key.Text, Key.Policy, Key.Description, Key.Remark>>

RECURSIVE extractCancellationPolicy(_)
extractCancellationPolicy(value) ==
  IF value.t = "string"
  THEN IF Trim(value.s) # <<>> THEN JStr(Trim(value.s)) ELSE JNull
  ELSE IF value.t = "array"
  THEN LET mapped == [i \in 1..Len(value.a) |-> extractCancellationPolicy(value.a[i])]
           parts == SelectSeq(mapped, Truthy)
       IN IF Len(parts) > 0
          THEN JStr(JoinWithSpace([i \in 1..Len(parts) |-> parts[i].s]))
          ELSE JNull
  ELSE IF isRecord(value) THEN toStringValue(GetFirst(value, PolicyKeys))
  ELSE JNull

RoomWords ==
  {<<"r", "o", "o", "m">>, <<"r", "a", "t", "e">>,
   <<"b", "o", "a", "r", "d">>, <<"m", "e", "a", "l">>,
   <<"r", "e", "f", "u", "n", "d", "a", "b", "l", "e">>}

hasRoomSignature(record) ==
  \E i \in 1..Len(record.o) :
    \E w \in RoomWords : Includes(ToLowerCase(record.o[i][1]), w)

RECURSIVE Concat(_)
Concat(seqs) == IF seqs = <<>> THEN <<>> ELSE Head(seqs) \o Concat(Tail(seqs))

\* the candidates in the order visit() pushes them: an array before the arrays
\* nested in its elements, the values of a record in key order
RECURSIVE VisitCandidates(_)
VisitCandidates(node) ==
  IF node.t = "array"
  THEN LET records == SelectSeq(node.a, isRecord)
           own == IF Len(records) > 0 /\ \E i \in 1..Len(records) : hasRoomSignature(records[i])
                  THEN <<records>> ELSE <<>>
       IN own \o Concat([i \in 1..Len(node.a) |-> VisitCandidates(node.a[i])])
  ELSE IF isRecord(node)
  THEN Concat([i \in 1..Len(node.o) |-> VisitCandidates(node.o[i][2])])
  ELSE <<>>

\* Array.prototype.sort: a stable sort; cmp[i][j] is the comparator applied to
\* s[i] and s[j], and s[i] goes after s[j] when cmp[i][j] > 0
SortStable(s, cmp) ==
  LET RECURSIVE Insert(_, _)
      Insert(sorted, k) ==
        IF sorted = <<>> THEN <<k>>
        ELSE IF cmp[sorted[Len(sorted)]][k] > 0
        THEN Insert(SubSeq(sorted, 1, Len(sorted) - 1), k) \o <<sorted[Len(sorted)]>>
        ELSE sorted \o <<k>>
      RECURSIVE Sorted(_)
      Sorted(k) == IF k = 0 THEN <<>> ELSE Insert(Sorted(k - 1), k)
      order == Sorted(Len(s))
  IN [i \in 1..Len(s) |-> s[order[i]]]

ByLengthDesc(a, b) == Len(b) - Len(a)

FirstCandidate(candidates) == candidates[1]

findRoomCandidatesFirstFound(value) ==
  LET candidates == VisitCandidates(value)
  IN IF Len(candidates) = 0 THEN <<>> ELSE FirstCandidate(candidates)

findRoomCandidates(value) ==
  LET candidates == VisitCandidates(value)
  IN IF Len(candidates) = 0 THEN <<>>
     ELSE FirstCandidate(
            SortStable(candidates,
                       [i \in 1..Len(candidates) |->
                          [j \in 1..Len(candidates) |->
                             ByLengthDesc(candidates[i], candidates[j])]]))

\* the keys each field of a room option is looked up under, in order
RoomKeys ==
  [id |-> <<Key.RoomCode, Key.RateKey, Key.RoomIndex, Key.Id>>,
   name |-> <<Key.RoomName, Key.RoomType, Key.Name, Key.Room>>,
   boardType |-> <<Key.BoardType, Key.MealType, Key.MealPlan, Key.Meal, Key.Board>>,
   refundable |-> <<Key.Refundable, Key.IsRefundable>>,
   price |-> <<Key.TotalPrice, Key.TotalAmount, Key.RoomRate, Key.NetRate, Key.Price,
               Key.NetPrice, Key.Amount>>,
   availableRooms |-> <<Key.AvailableRooms, Key.RoomAvailable, Key.Availability>>,
   cancellationPolicy |-> <<Key.CancellationPolicy, Key.CancelPolicy, Key.CancellationText>>]

\* the loop over priceCandidates: the first candidate whose amount is not null
RECURSIVE FirstMoney(_, _)
FirstMoney(room, keys) ==
  IF keys = <<>> THEN [amount |-> JNull, currency |-> JNull]
  ELSE LET money == extractMoney(Prop(room, Head(keys)))
       IN IF money.amount # JNull THEN money ELSE FirstMoney(room, Tail(keys))

\* one element of resolvedRoomItems.map((room, index) => ...), index from 1
RoomOption(room, index) ==
  LET refundableValue == toBoolean(GetFirst(room, RoomKeys.refundable))
      nonRefundableValue == toBoolean(Prop(room, Key.NonRefundable))
      money == FirstMoney(room, RoomKeys.price)
  IN [id |-> Coalesce(<<toStringValue(GetFirst(room, RoomKeys.id)),
                        JStr(<<"r", "o", "o", "m", "-">> \o NumToStr(index))>>),
      name |-> toStringValue(GetFirst(room, RoomKeys.name)),
      boardType |-> toStringValue(GetFirst(room, RoomKeys.boardType)),
      refundable |-> IF refundableValue # JNull THEN refundableValue
                     ELSE IF nonRefundableValue # JNull THEN JBool(~nonRefundableValue.b)
                     ELSE JNull,
      currency |-> IF Truthy(money.currency) THEN money.currency
                   ELSE toStringValue(GetFirst(room, CurrencyKeys)),
      totalPrice |-> money.amount,
      availableRooms |-> toInteger(GetFirst(room, RoomKeys.availableRooms)),
      cancellationPolicy |-> extractCancellationPolicy(GetFirst(room, RoomKeys.cancellationPolicy))]

RoomOptions(items) == [i \in 1..Len(items) |-> RoomOption(items[i], i)]

\* the three known places of the room list, in the order they are tried
RoomSources(response) ==
  <<PropOpt(Prop(response, Key.RoomDetails), Key.RoomDetail),
    PropOpt(Prop(response, Key.HotelRooms), Key.HotelRoom),
    IF isRecord(Prop(response, Key.Rooms)) THEN Prop(Prop(response, Key.Rooms), Key.Room)
    ELSE Prop(response, Key.Rooms)>>

FirstRecordsLaterWins(sources) ==
  LET filled == {i \in 1..Len(sources) :
                   Len(SelectSeq(normalizeArray(sources[i]), isRecord)) > 0}
  IN IF filled = {} THEN <<>>
     ELSE SelectSeq(normalizeArray(sources[CHOOSE i \in filled : \A j \in filled : j <= i]),
                    isRecord)

\* sources.reduce(...): the records of the first source that has any
RECURSIVE FirstRecords(_)
FirstRecords(sources) ==
  IF sources = <<>> THEN <<>>
  ELSE LET candidates == SelectSeq(normalizeArray(Head(sources)), isRecord)
       IN IF Len(candidates) > 0 THEN candidates ELSE FirstRecords(Tail(sources))

resolvedRoomItems(response) ==
  LET roomItems == FirstRecords(RoomSources(response))
  IN IF Len(roomItems) > 0 THEN roomItems ELSE findRoomCandidates(response)

normalizeRoomOptions(response) == RoomOptions(resolvedRoomItems(response))

----------------------------------------------------------------------------
(* Service functions of the vendor client *)

Ok(value, sent) == [kind |-> "ok", value |-> value, sent |-> sent]

AoryxClientError(message, endpoint, statusCode, sent) ==
  [kind |-> "AoryxClientError", message |-> message, endpoint |-> endpoint,
   statusCode |-> statusCode, sent |-> sent]

AoryxServiceError(message, code, sent) ==
  [kind |-> "AoryxServiceError", message |-> message, code |-> code, sent |-> sent]

\* reading a property of null or undefined
TypeError(sent) == [kind |-> "TypeError", sent |-> sent]

DefaultMessage(text) == [t |-> "default", text |-> text]

NoEndpoint == "undefined"
NoStatus == 0

\* one outbound request as fetch sees it
Sent(endpoint, payload) == [endpoint |-> endpoint, payload |-> payload]

\* coreRequest, lines 135-195. cfg says whether AORYX_API_KEY and AORYX_BASE_URL
\* are set; transport is what fetch and response.json() do: "ok" with the parsed
\* body, "http" with a non-2xx status, "abort", "network" or "badjson".
coreRequest(endpoint, payload, cfg, transport) ==
  IF ~cfg.apiKey
  THEN AoryxClientError("Missing AORYX_API_KEY configuration", endpoint, NoStatus, <<>>)
  ELSE IF ~cfg.baseUrl
  THEN AoryxClientError("Missing AORYX_BASE_URL configuration", NoEndpoint, NoStatus, <<>>)
  ELSE IF transport.kind = "http"
  THEN AoryxClientError("Aoryx API error", endpoint, transport.status, <<Sent(endpoint, payload)>>)
  ELSE IF transport.kind = "abort"
  THEN AoryxClientError("Request timeout", endpoint, NoStatus, <<Sent(endpoint, payload)>>)
  ELSE IF transport.kind \in {"network", "badjson"}
  THEN AoryxClientError(transport.kind, endpoint, NoStatus, <<Sent(endpoint, payload)>>)
  ELSE Ok(pascalizeKeys(transport.data), <<Sent(endpoint, payload)>>)

normalizeSearchHotel(hotel, currency) ==
  LET info == Prop(hotel, Key.HotelInfo)
  IN [code |-> toStringValue(Prop(hotel, Key.Code)),
      name |-> Coalesce(<<toStringValue(PropOpt(info, Key.Name)),
                          toStringValue(Prop(hotel, Key.Name))>>),
      minPrice |-> toNumber(Prop(hotel, Key.MinPrice)),
      currency |-> currency,
      rating |-> toNumber(PropOpt(info, Key.StarRating)),
      address |-> toStringValue(PropOpt(info, Key.Add1)),
      city |-> toStringValue(PropOpt(info, Key.City)),
      imageUrl |-> toStringValue(PropOpt(info, Key.Image)),
      latitude |-> toNumber(PropOpt(info, Key.Lat)),
      longitude |-> toNumber(PropOpt(info, Key.Lon))]

InvalidSearchParamsRoomsUnchecked(params) ==
  \/ ~Truthy(params.destinationCode) /\ ~Truthy(params.hotelCode)
  \/ ~Truthy(params.checkInDate) \/ ~Truthy(params.checkOutDate)

\* validateSearchParams, lines 447-457: TRUE when it throws
InvalidSearchParams(params) ==
  \/ ~Truthy(params.destinationCode) /\ ~Truthy(params.hotelCode)
  \/ ~Truthy(params.checkInDate) \/ ~Truthy(params.checkOutDate)
  \/ ~Truthy(params.rooms) \/ Len(params.rooms.a) = 0

hotelsArrayDropSingle(hotelsRaw) ==
  IF hotelsRaw.t = "array" THEN hotelsRaw.a ELSE <<>>

\* line 486: Array.isArray(hotelsRaw) ? hotelsRaw : hotelsRaw ? [hotelsRaw] : []
hotelsArrayOf(hotelsRaw) ==
  IF hotelsRaw.t = "array" THEN hotelsRaw.a
  ELSE IF Truthy(hotelsRaw) THEN <<hotelsRaw>>
  ELSE <<>>

\* line 474: the condition under which search raises SEARCH_ERROR
searchFailed(response) ==
  ~Truthy(Prop(response, Key.IsSuccess)) /\ Truthy(Prop(response, Key.ExceptionMessage))

extractSessionIdUntrimmed(generalInfo) == PropOpt(generalInfo, Key.SessionId)

\* extractSessionId, lines 438-444: the id, or null where the function throws
extractSessionId(generalInfo) == toStringValue(PropOpt(generalInfo, Key.SessionId))

\* search after coreRequest returned, lines 474-501
searchResult(response, sent) ==
  IF Nullish(response) THEN TypeError(sent)
  ELSE IF searchFailed(response)
  THEN AoryxServiceError(Prop(response, Key.ExceptionMessage), "SEARCH_ERROR", sent)
  ELSE
    LET sessionId == extractSessionId(Prop(response, Key.GeneralInfo))
        currency ==
          toStringValue(PropOpt(PropOpt(Prop(response, Key.Monetary), Key.Currency), Key.Code))
        hotelsRaw == Coalesce(<<PropOpt(Prop(response, Key.Hotels), Key.Hotel), JArr(<<>>)>>)
        hotelsArray == hotelsArrayOf(hotelsRaw)
        audit == Prop(response, Key.Audit)
        destination == PropOpt(audit, Key.Destination)
    IN IF ~Truthy(sessionId)
       THEN AoryxServiceError(DefaultMessage("No session ID in search response"),
                              "MISSING_SESSION_ID", sent)
       ELSE IF \E i \in 1..Len(hotelsArray) : Nullish(hotelsArray[i])
       THEN TypeError(sent)
       ELSE Ok([sessionId |-> sessionId,
                currency |-> currency,
                propertyCount |-> toInteger(PropOpt(audit, Key.PropertyCount)),
                responseTime |-> toStringValue(PropOpt(audit, Key.ResponseTime)),
                destination |->
                  IF Truthy(destination)
                  THEN [code |-> toStringValue(Prop(destination, Key.Code)),
                        name |-> toStringValue(Prop(destination, Key.Text))]
                  ELSE JNull,
                hotels |-> [i \in 1..Len(hotelsArray) |->
                              normalizeSearchHotel(hotelsArray[i], currency)]],
               sent)

\* search, lines 464-502
search(params, cfg, transport) ==
  IF InvalidSearchParams(params)
  THEN AoryxServiceError(DefaultMessage("invalid params"), "INVALID_PARAMS", <<>>)
  ELSE LET r == coreRequest("Search", [searchParameter |-> params], cfg, transport)
       IN IF r.kind # "ok" THEN r ELSE searchResult(r.value, r.sent)

\* roomDetails, lines 507-537
roomDetails(params, cfg, transport, transport2) ==
  IF InvalidSearchParams(params)
  THEN AoryxServiceError(DefaultMessage("invalid params"), "INVALID_PARAMS", <<>>)
  ELSE IF ~Truthy(params.hotelCode)
  THEN AoryxServiceError(DefaultMessage("Hotel code is required for room details"),
                         "INVALID_PARAMS", <<>>)
  ELSE LET found == search(params, cfg, transport)
       IN IF found.kind # "ok" THEN found
          ELSE LET r == coreRequest("RoomDetails",
                                    [hotelCode |-> params.hotelCode,
                                     searchParameter |-> params,
                                     sessionId |-> found.value.sessionId],
                                    cfg, transport2)
                   sent == found.sent \o r.sent
               IN IF r.kind # "ok" THEN [r EXCEPT !.sent = sent]
                  ELSE IF Nullish(r.value) THEN TypeError(sent)
                  ELSE IF Prop(r.value, Key.IsSuccess) = JBool(FALSE)
                  THEN AoryxServiceError(
                         Coalesce(<<Prop(r.value, Key.ExceptionMessage),
                                    DefaultMessage("RoomDetails request failed")>>),
                         "ROOM_DETAILS_ERROR", sent)
                  ELSE Ok(normalizeRoomOptions(r.value), sent)

\* one element of hotelsInformation.map(...), lines 567-580
HotelsInfoItem(item) ==
  LET geoCode == Prop(item, Key.GeoCode)
  IN [destinationId |-> toStringValue(Prop(item, Key.DestinationId)),
      name |-> toStringValue(Prop(item, Key.Name)),
      systemId |-> toStringValue(Prop(item, Key.SystemId)),
      rating |-> toNumber(Prop(item, Key.Rating)),
      city |-> toStringValue(Prop(item, Key.City)),
      address |-> toStringValue(Prop(item, Key.Address1)),
      imageUrl |-> toStringValue(Prop(item, Key.ImageUrl)),
      latitude |-> toNumber(PropOpt(geoCode, Key.Lat)),
      longitude |-> toNumber(PropOpt(geoCode, Key.Lon))]

\* hotelsInfoByDestinationId, lines 542-581
hotelsInfoByDestinationId(destinationId, cfg, transport) ==
  LET r == coreRequest("HotelsInfoByDestinationId", [destinationId |-> destinationId],
                       cfg, transport)
  IN IF r.kind # "ok" THEN r
     ELSE IF Nullish(r.value) THEN TypeError(r.sent)
     ELSE LET hotelsInformation ==
                Coalesce(<<Prop(r.value, Key.HotelsInformation), JArr(<<>>)>>)
          IN IF ~Truthy(Prop(r.value, Key.IsSuccess))
             THEN AoryxServiceError(
                    Coalesce(<<Prop(r.value, Key.ExceptionMessage),
                               DefaultMessage("HotelsInfoByDestinationId request failed")>>),
                    "HOTELS_INFO_ERROR", r.sent)
             \* .map of a value that is no array, or .GeoCode of a null element
             ELSE IF hotelsInformation.t # "array" THEN TypeError(r.sent)
             ELSE IF \E i \in 1..Len(hotelsInformation.a) : Nullish(hotelsInformation.a[i])
             THEN TypeError(r.sent)
             ELSE Ok([i \in 1..Len(hotelsInformation.a) |->
                        HotelsInfoItem(hotelsInformation.a[i])], r.sent)

\* the object hotelInfo returns, lines 610-645
HotelInfoResult(info) ==
  LET address == Prop(info, Key.Address)
      geoCode == Prop(info, Key.GeoCode)
      contact == Prop(info, Key.Contact)
      imageUrls == Prop(info, Key.ImageUrls)
  IN [systemId |-> toStringValue(Prop(info, Key.SystemId)),
      name |-> toStringValue(Prop(info, Key.Name)),
      rating |-> toNumber(Prop(info, Key.Rating)),
      tripAdvisorRating |-> toNumber(Prop(info, Key.TripAdvisorRating)),
      tripAdvisorUrl |-> toStringValue(Prop(info, Key.TripAdvisorUrl)),
      currencyCode |-> toStringValue(Prop(info, Key.CurrencyCode)),
      imageUrl |-> toStringValue(Prop(info, Key.ImageUrl)),
      imageUrls |->
        IF imageUrls.t = "array"
        THEN SelectSeq([i \in 1..Len(imageUrls.a) |-> toStringValue(imageUrls.a[i])], Truthy)
        ELSE <<>>,
      address |->
        IF Truthy(address)
        THEN [line1 |-> toStringValue(Prop(address, Key.Line1)),
              line2 |-> toStringValue(Prop(address, Key.Line2)),
              countryCode |-> toStringValue(Prop(address, Key.CountryCode)),
              countryName |-> toStringValue(Prop(address, Key.CountryName)),
              cityName |-> toStringValue(Prop(address, Key.CityName)),
              stateCode |-> toStringValue(Prop(address, Key.StateCode)),
              zipCode |-> toStringValue(Prop(address, Key.ZipCode))]
        ELSE JNull,
      geoCode |->
        IF Truthy(geoCode)
        THEN [lat |-> toNumber(Prop(geoCode, Key.Lat)), lon |-> toNumber(Prop(geoCode, Key.Lon))]
        ELSE JNull,
      contact |->
        IF Truthy(contact)
        THEN [phone |-> toStringValue(Prop(contact, Key.PhoneNo)),
              fax |-> toStringValue(Prop(contact, Key.FaxNo)),
              website |-> toStringValue(Prop(contact, Key.Website))]
        ELSE JNull]

\* hotelInfo, lines 586-646
hotelInfo(hotelCode, cfg, transport) ==
  LET r == coreRequest("hotel-Info", [hotelCode |-> hotelCode], cfg, transport)
  IN IF r.kind # "ok" THEN r
     ELSE IF Nullish(r.value) THEN TypeError(r.sent)
     ELSE IF ~Truthy(Prop(r.value, Key.IsSuccess))
     THEN AoryxServiceError(
            Coalesce(<<Prop(r.value, Key.ExceptionMessage),
                       DefaultMessage("HotelInfo request failed")>>),
            "HOTEL_INFO_ERROR", r.sent)
     ELSE LET info == Coalesce(<<Prop(r.value, Key.HotelInformation), JNull>>)
          IN IF ~Truthy(info) THEN Ok(JNull, r.sent)
             ELSE Ok(HotelInfoResult(info), r.sent)

----------------------------------------------------------------------------
(* extractMoney applied to vendor money values *)

MaxStrLen == 3
MaxMoneyKeys == 2

MoneyChars == {"1", "2", "-", " ", "x"}

MoneyStrings == UNION {[1..k -> MoneyChars] : k \in 0..MaxStrLen}

MoneyFieldValues ==
  {JNull, JNum(7), JNum(0), JStr(<<"8">>), JStr(<<"x">>), JStr(<<>>), JBool(TRUE),
   JObj(<<>>)}

\* the object holding f[i] under MoneyKeys[i] for the i in K, in key order
MoneyObject(K, f) ==
  JObj(Concat([i \in 1..Len(MoneyKeys) |->
                 IF i \in K THEN <<<<MoneyKeys[i], f[i]>>>> ELSE <<>>]))

MoneyObjects ==
  UNION {{MoneyObject(K, f) : f \in [K -> MoneyFieldValues]} :
           K \in {K \in SUBSET (1..Len(MoneyKeys)) : Cardinality(K) <= MaxMoneyKeys}}

MoneyValues ==
  {JNum(0), JNum(7), JNum(0 - 3), JNaN, JNull, JUndef, JBool(TRUE), JArr(<<JNum(7)>>),
   JObj(<<<<Key.Amount, JNum(7)>>, <<Key.Currency, JStr(<<"U", "S", "D">>)>>>>)}
  \cup {JStr(str) : str \in MoneyStrings}
  \cup MoneyObjects

MoneyInit ==
  /\ FavIdle /\ ResIdle /\ NetIdle /\ PageIdle
  /\ cOp = "extractMoney"
  /\ cIn \in MoneyValues
  /\ cOut = JNull
  /\ cPc = "ready"

ExtractMoneyCall ==
  /\ cPc = "ready" /\ cOp = "extractMoney"
  /\ cOut' = extractMoney(cIn)
  /\ cPc' = "done"
  /\ UNCHANGED <<cOp, cIn>>
  /\ UNCHANGED exceptCli

SpecMoney == MoneyInit /\ [][ExtractMoneyCall]_vars

\* a string that is a numeral from end to end, apart from surrounding blanks
IsNumericString(str) ==
  LET t == Trim(str)
      body == IF t # <<>> /\ Head(t) = "-" THEN Tail(t) ELSE t
  IN body # <<>> /\ \A i \in 1..Len(body) : IsDigit(body[i])

NumeralValue(str) ==
  LET t == Trim(str)
  IN IF Head(t) = "-" THEN 0 - DigitsValue(Tail(t)) ELSE DigitsValue(t)

\* the amounts an object carries under the six amount keys
CarriedAmounts(obj) ==
  {Prop(obj, MoneyKeys[i]).n :
     i \in {j \in 1..Len(MoneyKeys) : Prop(obj, MoneyKeys[j]).t = "number"}}
  \cup
  {NumeralValue(Prop(obj, MoneyKeys[i]).s) :
     i \in {j \in 1..Len(MoneyKeys) :
              /\ Prop(obj, MoneyKeys[j]).t = "string"
              /\ IsNumericString(Prop(obj, MoneyKeys[j]).s)}}

\* nothing that could be an amount: no number, no string, no amount key set
NoAmount(v) ==
  \/ v.t \in {"null", "undefined", "boolean", "array", "nan"}
  \/ isRecord(v) /\ \A i \in 1..Len(MoneyKeys) : Nullish(Prop(v, MoneyKeys[i]))

\* C1: extractMoney returns the number itself for a finite number, the numeral's
\* value for a numeric string, the amount carried under one of Amount,
\* TotalAmount, Value, Price, Net, NetAmount for an object, and null when no
\* amount is present.
C1_ExtractMoneyYieldsAmount ==
  (cOp = "extractMoney" /\ cPc = "done") =>
    /\ cIn.t = "number" => cOut.amount = JNum(cIn.n)
    /\ (cIn.t = "string" /\ IsNumericString(cIn.s)) =>
         cOut.amount = JNum(NumeralValue(cIn.s))
    /\ (isRecord(cIn) /\ CarriedAmounts(cIn) # {}) =>
         (cOut.amount.t = "number" /\ cOut.amount.n \in CarriedAmounts(cIn))
    /\ NoAmount(cIn) => cOut.amount = JNull

----------------------------------------------------------------------------
(* Favorites: properties *)

PostAnswered == lastResp.method = "POST" /\ lastResp.status = 200

\* C2: when requests run one after another, every POST answers isFavorite =
\* presence of the (userIdString, hotelCode) record after it, and the second of
\* two consecutive POSTs on the same pair answers the opposite of the first and
\* leaves presence as it was before the first.
C2_SequentialToggle ==
  PostAnswered =>
    /\ lastResp.isFavorite = BoolStr(lastResp.present)
    /\ lastResp.prev # "none" =>
         /\ lastResp.isFavorite # lastResp.prev
         /\ lastResp.present = lastResp.prevBefore

C2_Witness ==
  /\ PostAnswered
  /\ lastResp.prev = "true"
  /\ lastResp.isFavorite = "false"
  /\ storage = {}

\* C3: under every interleaving of the collection accesses of concurrent
\* requests, the isFavorite a POST answers equals the presence of the record
\* at the moment that POST's own write completes.
C3_ConcurrentPostMatchesStorage ==
  PostAnswered => lastResp.isFavorite = BoolStr(lastResp.present)

\* C4: the collection holds at most one record per (userIdString, hotelCode),
\* whatever the interleaving of GET, POST and DELETE.
C4_UniquePerUserHotel ==
  \A r1 \in storage, r2 \in storage :
    (r1.userIdString = r2.userIdString /\ r1.hotelCode = r2.hotelCode) => r1 = r2

\* two POSTs both found no record; the second upsert met the first one's insert
C4_Witness ==
  /\ PostAnswered
  /\ lastResp.isFavorite = "true"
  /\ lastResp.foundOnWrite
  /\ Cardinality(storage) = 2

\* C5: a request without a session user id is answered 401 without any access
\* to the collection, storage is left unchanged, and the 401 comes before the
\* 400 of a missing hotelCode.
C5_UnauthorizedFirst ==
  [][(/\ nStarted' = nStarted + 1
      /\ reqs'[nStarted'].pc = "done"
      /\ ~lastResp'.authed)
     => (/\ lastResp'.status = 401
         /\ lastResp'.ops = 0
         /\ lastResp'.isFavorite = "none"
         /\ lastResp'.items = <<>>
         /\ storage' = storage)]_vars

C5_Witness ==
  /\ lastResp.method = "POST"
  /\ lastResp.status = 401
  /\ ~lastResp.authed
  /\ ~lastResp.hasHotel
  /\ storage # {}

----------------------------------------------------------------------------
(* Vendor responses and calls of the service functions *)

MaxHotels == 2

\* a key: value member of an object literal, left out when the value is absent
Entry(key, v) == IF v.t = "undefined" THEN <<>> ELSE <<<<key, v>>>>

MkObj(entries) == JObj(Concat(entries))

ToCamelKey(key) == IF key = <<>> THEN key ELSE <<ToLowerChar(Head(key))>> \o Tail(key)

\* the same JSON with camelCase keys, as the vendor may send it
RECURSIVE camelizeKeys(_)
camelizeKeys(value) ==
  IF value.t = "array" THEN JArr([i \in 1..Len(value.a) |-> camelizeKeys(value.a[i])])
  ELSE IF value.t = "object"
  THEN JObj([i \in 1..Len(value.o) |->
               <<ToCamelKey(value.o[i][1]), camelizeKeys(value.o[i][2])>>])
  ELSE value

SeqsUpTo(S, n) == UNION {[1..k -> S] : k \in 0..n}

T_x == <<"x">>
T_s1 == <<"s", "1">>
T_h1 == <<"h", "1">>
T_USD == <<"U", "S", "D">>
T_Inn == <<"I", "n", "n">>
T_Two == <<"T", "w", "o">>
T_err == <<"e", "r", "r">>

HotelOne ==
  MkObj(<<Entry(Key.Code, JStr(T_h1)),
          Entry(Key.Name, JStr(T_h1)),
          Entry(Key.MinPrice, JNum(120)),
          Entry(Key.HotelInfo,
                MkObj(<<Entry(Key.Name, JStr(<<" ">> \o T_Inn)),
                        Entry(Key.StarRating, JStr(<<"4">>)),
                        Entry(Key.Add1, JStr(<<"a">>)),
                        Entry(Key.City, JStr(<<"c">>)),
                        Entry(Key.Image, JStr(<<"i">>)),
                        Entry(Key.Lat, JStr(<<"2", "5">>)),
                        Entry(Key.Lon, JStr(<<"5", "5">>))>>))>>)

HotelTwo ==
  MkObj(<<Entry(Key.Code, JNum(7)),
          Entry(Key.Name, JStr(T_Two)),
          Entry(Key.MinPrice, JStr(T_x)),
          Entry(Key.HotelInfo, JNull)>>)

HotelObjects == {HotelOne, HotelTwo}

\* what Hotels.Hotel may hold
HotelFields ==
  {JUndef, JNull, JStr(T_x), JNum(0)}
  \cup HotelObjects
  \cup {JArr(a) : a \in SeqsUpTo(HotelObjects \cup {JNull}, MaxHotels)}

HotelsValues == {JUndef, JNull} \cup {MkObj(<<Entry(Key.Hotel, h)>>) : h \in HotelFields}

IsSuccessValues == {JUndef, JBool(TRUE), JBool(FALSE)}

ExceptionMessages == {JUndef, JNull, JStr(<<>>), JStr(T_err)}

GeneralInfos ==
  {JUndef, JNull,
   MkObj(<<Entry(Key.SessionId, JStr(<<" ">>))>>),
   MkObj(<<Entry(Key.SessionId, JStr(T_s1 \o <<" ">>))>>)}

Monetaries ==
  {JUndef, MkObj(<<Entry(Key.Currency, MkObj(<<Entry(Key.Code, JStr(T_USD))>>))>>)}

Audits ==
  {JUndef,
   MkObj(<<Entry(Key.PropertyCount, JStr(<<"1", "2">>)),
           Entry(Key.Destination,
                 MkObj(<<Entry(Key.Code, JNum(160)), Entry(Key.Text, JStr(T_x))>>))>>)}

SearchResponse(ok, msg, info, money, hotels, audit) ==
  MkObj(<<Entry(Key.IsSuccess, ok), Entry(Key.ExceptionMessage, msg),
          Entry(Key.GeneralInfo, info), Entry(Key.Monetary, money),
          Entry(Key.Hotels, hotels), Entry(Key.Audit, audit)>>)

\* bodies that are no JSON object
OddBodies == {JNull, JStr(T_x), JNum(5), JArr(<<>>), JBool(TRUE)}

SearchBodiesPascal ==
  {SearchResponse(ok, msg, info, money, hotels, audit) :
     ok \in IsSuccessValues, msg \in ExceptionMessages, info \in GeneralInfos,
     money \in Monetaries, hotels \in HotelsValues, audit \in Audits}

SearchBodies ==
  SearchBodiesPascal \cup {camelizeKeys(b) : b \in SearchBodiesPascal} \cup OddBodies

GoodSearchBody ==
  SearchResponse(JBool(TRUE), JUndef,
                 MkObj(<<Entry(Key.SessionId, JStr(T_s1 \o <<" ">>))>>),
                 JUndef, MkObj(<<Entry(Key.Hotel, HotelOne)>>), JUndef)

RoomParam == JObj(<<>>)

SearchParams(destinationCode, hotelCode, checkInDate, checkOutDate, rooms) ==
  [destinationCode |-> destinationCode, hotelCode |-> hotelCode,
   checkInDate |-> checkInDate, checkOutDate |-> checkOutDate, rooms |-> rooms]

HotelParams ==
  SearchParams(JUndef, JStr(T_h1), JStr(<<"d", "1">>), JStr(<<"d", "2">>), JArr(<<RoomParam>>))

DestinationParams ==
  SearchParams(JStr(<<"1", "6", "0">>), JUndef, JStr(<<"d", "1">>), JStr(<<"d", "2">>),
               JArr(<<RoomParam>>))

BadParams ==
  {[HotelParams EXCEPT !.hotelCode = JUndef],
   [HotelParams EXCEPT !.checkInDate = JStr(<<>>)],
   [HotelParams EXCEPT !.checkOutDate = JUndef],
   [HotelParams EXCEPT !.rooms = JUndef],
   [HotelParams EXCEPT !.rooms = JArr(<<>>)]}

AllParams == {HotelParams, DestinationParams} \cup BadParams

GoodCfg == [apiKey |-> TRUE, baseUrl |-> TRUE]

Cfgs == {GoodCfg, [apiKey |-> FALSE, baseUrl |-> TRUE], [apiKey |-> TRUE, baseUrl |-> FALSE]}

OkTransport(data) == [kind |-> "ok", data |-> data]

FailTransports ==
  {[kind |-> "http", status |-> 500], [kind |-> "http", status |-> 404],
   [kind |-> "abort"], [kind |-> "network"], [kind |-> "badjson"]}

NoTransport == [kind |-> "none"]

Call(params, cfg, transport, transport2) ==
  [params |-> params, cfg |-> cfg, transport |-> transport, transport2 |-> transport2]

\* every response body with sound parameters and configuration, and every
\* combination of parameters, configuration and transport failure
SearchCalls ==
  {Call(DestinationParams, GoodCfg, OkTransport(b), NoTransport) : b \in SearchBodies}
  \cup {Call(p, c, t, NoTransport) :
          p \in AllParams, c \in Cfgs, t \in FailTransports \cup {OkTransport(GoodSearchBody)}}

MaxRooms == 2

K_Data == <<"D", "a", "t", "a">>
K_Items == <<"I", "t", "e", "m", "s">>
K_Options == <<"O", "p", "t", "i", "o", "n", "s">>

RoomA ==
  MkObj(<<Entry(Key.RoomCode, JStr(<<"r", "1">>)),
          Entry(Key.RoomName, JStr(<<"S", "t", "d">>)),
          Entry(Key.TotalPrice,
                MkObj(<<Entry(Key.Amount, JNum(100)), Entry(Key.Currency, JStr(T_USD))>>)),
          Entry(Key.Refundable, JStr(<<"y", "e", "s">>))>>)

RoomB ==
  MkObj(<<Entry(Key.RateKey, JStr(<<"k", "2">>)),
          Entry(Key.MealType, JStr(<<"B", "B">>)),
          Entry(Key.Price, JStr(<<"8", "0">>)),
          Entry(Key.NonRefundable, JBool(TRUE))>>)

\* a record none of whose keys is room-like
PlainRecord == MkObj(<<Entry(Key.Id, JStr(<<"p">>)), Entry(Key.Name, JStr(<<"n">>))>>)

RateX == MkObj(<<Entry(Key.RateKey, JStr(<<"k", "1">>)), Entry(Key.NetRate, JNum(50))>>)
RateY == MkObj(<<Entry(Key.RateKey, JStr(<<"k", "3">>)), Entry(Key.NetRate, JNum(60))>>)

\* a room that carries its rates as a nested array
RoomNested ==
  MkObj(<<Entry(Key.RoomCode, JStr(<<"r", "9">>)),
          Entry(K_Options, JArr(<<RateX, RateY>>))>>)

RoomElements == {RoomA, RoomB, PlainRecord, RoomNested, JStr(T_x), JNull}

RoomArrays == {JArr(a) : a \in SeqsUpTo(RoomElements, MaxRooms)}

SideArrays == {JArr(a) : a \in SeqsUpTo({RoomA, PlainRecord, RoomNested}, MaxRooms)}

\* what a known room-list key may hold
KnownLists ==
  {JNull, RoomA, JArr(<<>>), JArr(<<RoomA>>), JArr(<<JStr(T_x)>>), JArr(<<RoomB, PlainRecord>>)}

Wrapped(key, values) == {MkObj(<<Entry(key, v)>>) : v \in values}

RoomResponse(details, hotelRooms, rooms, data, items) ==
  MkObj(<<Entry(Key.RoomDetails, details), Entry(Key.HotelRooms, hotelRooms),
          Entry(Key.Rooms, rooms), Entry(K_Data, data), Entry(K_Items, items)>>)

\* responses whose known keys are filled in every combination
KnownRoomResponses ==
  {RoomResponse(details, hotelRooms, rooms, data, JUndef) :
     details \in {JUndef, JNull} \cup Wrapped(Key.RoomDetail, KnownLists),
     hotelRooms \in {JUndef, JNull} \cup Wrapped(Key.HotelRoom, KnownLists),
     rooms \in {JUndef} \cup KnownLists \cup Wrapped(Key.Room, KnownLists),
     data \in {JUndef, JArr(<<RoomB>>)}}

\* responses whose known keys hold no record, with arrays nested elsewhere
ScannedRoomResponses ==
  {RoomResponse(details, JUndef, rooms, data, items) :
     details \in {JUndef, MkObj(<<Entry(Key.RoomDetail, JArr(<<JStr(T_x)>>))>>)},
     rooms \in {JUndef, JArr(<<>>)},
     data \in {JUndef} \cup RoomArrays \cup Wrapped(K_Items, RoomArrays),
     items \in {JUndef} \cup SideArrays}

RoomResponses == KnownRoomResponses \cup ScannedRoomResponses \cup RoomArrays \cup OddBodies

InfoFull ==
  MkObj(<<Entry(Key.SystemId, JNum(7)),
          Entry(Key.Name, JStr(T_Inn)),
          Entry(Key.Rating, JStr(<<"5">>)),
          Entry(Key.ImageUrls, JArr(<<JStr(<<" ", "a">>), JStr(<<>>), JNum(5), JNull>>)),
          Entry(Key.Address, MkObj(<<Entry(Key.Line1, JStr(<<"a">>)),
                                   Entry(Key.CityName, JStr(<<"c">>))>>)),
          Entry(Key.GeoCode, MkObj(<<Entry(Key.Lat, JStr(<<"2", "5">>)),
                                   Entry(Key.Lon, JNum(55))>>)),
          Entry(Key.Contact, MkObj(<<Entry(Key.PhoneNo, JStr(<<"1">>))>>))>>)

InfoOdd ==
  MkObj(<<Entry(Key.Name, JStr(<<" ">>)),
          Entry(Key.ImageUrls, JStr(T_x)),
          Entry(Key.Address, JStr(T_x)),
          Entry(Key.GeoCode, JNum(0)),
          Entry(Key.Contact, JNull)>>)

HotelInformations == {JUndef, JNull, JStr(T_x), JNum(0), InfoFull, InfoOdd}

HotelInfoBodiesPascal ==
  {MkObj(<<Entry(Key.IsSuccess, ok), Entry(Key.ExceptionMessage, msg),
           Entry(Key.HotelInformation, info)>>) :
     ok \in IsSuccessValues, msg \in ExceptionMessages, info \in HotelInformations}

HotelInfoBodies ==
  HotelInfoBodiesPascal \cup {camelizeKeys(b) : b \in HotelInfoBodiesPascal} \cup OddBodies

ItemOne ==
  MkObj(<<Entry(Key.DestinationId, JStr(<<"1", "6", "0", "-", "0">>)),
          Entry(Key.Name, JStr(T_Inn)),
          Entry(Key.SystemId, JNum(7)),
          Entry(Key.Rating, JStr(<<"4">>)),
          Entry(Key.GeoCode, MkObj(<<Entry(Key.Lat, JStr(<<"2", "5">>)),
                                   Entry(Key.Lon, JStr(<<"5", "5">>))>>))>>)

ItemTwo == MkObj(<<Entry(Key.Name, JStr(T_Two)), Entry(Key.GeoCode, JNull)>>)

HotelsInformations ==
  {JUndef, JNull, JStr(T_x), ItemOne}
  \cup {JArr(a) : a \in SeqsUpTo({ItemOne, ItemTwo, JNull, JStr(T_x)}, MaxHotels)}

HotelsInfoBodiesPascal ==
  {MkObj(<<Entry(Key.IsSuccess, ok), Entry(Key.ExceptionMessage, msg),
           Entry(Key.HotelsInformation, list)>>) :
     ok \in IsSuccessValues, msg \in ExceptionMessages, list \in HotelsInformations}

HotelsInfoBodies ==
  HotelsInfoBodiesPascal \cup {camelizeKeys(b) : b \in HotelsInfoBodiesPascal} \cup OddBodies

\* the Search step of roomDetails
SearchStepTransports ==
  {OkTransport(GoodSearchBody),
   OkTransport(MkObj(<<Entry(Key.IsSuccess, JBool(TRUE))>>)),
   OkTransport(MkObj(<<Entry(Key.IsSuccess, JBool(FALSE)),
                       Entry(Key.ExceptionMessage, JStr(T_err))>>)),
   OkTransport(JNull),
   [kind |-> "abort"]}

RoomDetailBodies ==
  {JObj(Concat(<<Entry(Key.IsSuccess, ok), Entry(Key.ExceptionMessage, msg)>>) \o body.o) :
     ok \in IsSuccessValues, msg \in ExceptionMessages,
     body \in {JObj(<<>>),
               RoomResponse(MkObj(<<Entry(Key.RoomDetail, JArr(<<RoomA, RoomB>>))>>),
                            JUndef, JUndef, JUndef, JUndef),
               RoomResponse(JUndef, JUndef, RoomB, JUndef, JUndef),
               RoomResponse(JUndef, JUndef, JUndef, JArr(<<RoomNested>>), JUndef)}}
  \cup OddBodies

RoomDetailsCalls ==
  {Call(HotelParams, GoodCfg, t, OkTransport(b)) :
     t \in SearchStepTransports, b \in RoomDetailBodies}
  \cup {Call(p, c, t, t2) :
          p \in AllParams, c \in Cfgs, t \in {OkTransport(GoodSearchBody)},
          t2 \in FailTransports \cup {OkTransport(JObj(<<>>))}}

\* hotelInfo and hotelsInfoByDestinationId take one string
InfoCalls(bodies) ==
  {Call(JStr(T_h1), GoodCfg, OkTransport(b), NoTransport) : b \in bodies}
  \cup {Call(JStr(T_h1), c, t, NoTransport) : c \in Cfgs, t \in FailTransports}

NoOutcome == [kind |-> "none"]

ClientInit ==
  /\ FavIdle /\ ResIdle /\ NetIdle /\ PageIdle
  /\ \/ cOp = "search" /\ cIn \in SearchCalls
     \/ cOp = "roomDetails" /\ cIn \in RoomDetailsCalls
     \/ cOp = "hotelInfo" /\ cIn \in InfoCalls(HotelInfoBodies)
     \/ cOp = "hotelsInfoByDestinationId" /\ cIn \in InfoCalls(HotelsInfoBodies)
  /\ cOut = NoOutcome
  /\ cPc = "ready"

Returns(op, outcome) ==
  /\ cPc = "ready" /\ cOp = op
  /\ cOut' = outcome
  /\ cPc' = "done"
  /\ UNCHANGED <<cOp, cIn>>
  /\ UNCHANGED exceptCli

SearchCall == Returns("search", search(cIn.params, cIn.cfg, cIn.transport))

RoomDetailsCall ==
  Returns("roomDetails", roomDetails(cIn.params, cIn.cfg, cIn.transport, cIn.transport2))

HotelInfoCall == Returns("hotelInfo", hotelInfo(cIn.params, cIn.cfg, cIn.transport))

HotelsInfoCall ==
  Returns("hotelsInfoByDestinationId",
          hotelsInfoByDestinationId(cIn.params, cIn.cfg, cIn.transport))

ClientNext == SearchCall \/ RoomDetailsCall \/ HotelInfoCall \/ HotelsInfoCall

SpecClient == ClientInit /\ [][ClientNext]_vars

RoomsInit ==
  /\ FavIdle /\ ResIdle /\ NetIdle /\ PageIdle
  /\ cOp = "normalizeRoomOptions"
  /\ cIn \in RoomResponses
  /\ cOut = <<>>
  /\ cPc = "ready"

NormalizeRoomOptionsCall ==
  /\ cPc = "ready" /\ cOp = "normalizeRoomOptions"
  /\ cOut' = normalizeRoomOptions(cIn)
  /\ cPc' = "done"
  /\ UNCHANGED <<cOp, cIn>>
  /\ UNCHANGED exceptCli

SpecRooms == RoomsInit /\ [][NormalizeRoomOptionsCall]_vars

----------------------------------------------------------------------------
(* Vendor client: properties *)

\* the body coreRequest hands to the service function
ResponseBody == pascalizeKeys(cIn.transport.data)

HotelField == PropOpt(Prop(ResponseBody, Key.Hotels), Key.Hotel)

\* a search that got a 2xx body carrying a session id and no reported failure
SearchAnswered ==
  /\ cOp = "search" /\ cPc = "done"
  /\ cIn.cfg = GoodCfg /\ ~InvalidSearchParams(cIn.params)
  /\ cIn.transport.kind = "ok"
  /\ isRecord(ResponseBody)
  /\ ~searchFailed(ResponseBody)
  /\ Truthy(toStringValue(PropOpt(Prop(ResponseBody, Key.GeneralInfo), Key.SessionId)))

\* C6: search returns one normalized hotel when Hotels.Hotel is a single
\* object, the n normalized hotels in the same order when it is an array of n
\* objects, and the empty list when it is absent.
C6_HotelListShapes ==
  SearchAnswered =>
    /\ isRecord(HotelField) =>
         /\ cOut.kind = "ok"
         /\ cOut.value.hotels = <<normalizeSearchHotel(HotelField, cOut.value.currency)>>
    /\ (HotelField.t = "array" /\ \A i \in 1..Len(HotelField.a) : isRecord(HotelField.a[i])) =>
         /\ cOut.kind = "ok"
         /\ Len(cOut.value.hotels) = Len(HotelField.a)
         /\ \A i \in 1..Len(HotelField.a) :
              cOut.value.hotels[i] = normalizeSearchHotel(HotelField.a[i], cOut.value.currency)
    /\ HotelField.t = "undefined" =>
         /\ cOut.kind = "ok"
         /\ cOut.value.hotels = <<>>

C6_Witness ==
  /\ SearchAnswered
  /\ HotelField = HotelOne
  /\ cOut.kind = "ok"
  /\ Len(cOut.value.hotels) = 1
  /\ cOut.value.hotels[1].code = JStr(T_h1)
  /\ cOut.value.hotels[1].name = JStr(T_Inn)
  /\ cOut.value.hotels[1].minPrice = JNum(120)
  /\ cOut.value.hotels[1].rating = JNum(4)

\* every array nested in a value, an array before the arrays inside it
RECURSIVE NestedArrays(_)
NestedArrays(node) ==
  IF node.t = "array"
  THEN <<node.a>> \o Concat([i \in 1..Len(node.a) |-> NestedArrays(node.a[i])])
  ELSE IF node.t = "object"
  THEN Concat([i \in 1..Len(node.o) |-> NestedArrays(node.o[i][2])])
  ELSE <<>>

RoomLikeKey(key) == \E w \in RoomWords : Includes(ToLowerCase(key), w)

RoomLikeRecord(v) == isRecord(v) /\ \E i \in 1..Len(v.o) : RoomLikeKey(v.o[i][1])

RoomLikeArray(a) == \E i \in 1..Len(a) : RoomLikeRecord(a[i])

\* the records of every nested array that has a room-like record
RoomLikeLists(response) ==
  LET found == SelectSeq(NestedArrays(response), RoomLikeArray)
  IN [i \in 1..Len(found) |-> SelectSeq(found[i], isRecord)]

\* normalizeRoomOptions returned for a response whose known keys yield no record
ScannerConsulted ==
  /\ cOp = "normalizeRoomOptions" /\ cPc = "done"
  /\ FirstRecords(RoomSources(cIn)) = <<>>

\* C7 as stated: the options are built from whichever nested room-like array
\* the response contains.
C7_AnyRoomLikeArray ==
  ScannerConsulted =>
    \A i \in 1..Len(RoomLikeLists(cIn)) : cOut = RoomOptions(RoomLikeLists(cIn)[i])

\* C7: when the known keys yield no record, the options are built from the
\* records of the nested room-like array that has the most records, the first
\* one met among equals; arrays without a room-like record are passed over.
C7_LongestRoomLikeArray ==
  ScannerConsulted =>
    LET lists == RoomLikeLists(cIn)
    IN IF lists = <<>> THEN cOut = <<>>
       ELSE \E i \in 1..Len(lists) :
              /\ cOut = RoomOptions(lists[i])
              /\ \A j \in 1..Len(lists) : Len(lists[j]) <= Len(lists[i])
              /\ \A j \in 1..(i - 1) : Len(lists[j]) < Len(lists[i])

C7_Witness ==
  /\ ScannerConsulted
  /\ Len(RoomLikeLists(cIn)) >= 2
  /\ Len(RoomLikeLists(cIn)[1]) < Len(cOut)
  /\ \E i \in 1..Len(NestedArrays(cIn)) :
       /\ ~RoomLikeArray(NestedArrays(cIn)[i])
       /\ SelectSeq(NestedArrays(cIn)[i], isRecord) # <<>>
  /\ cOut = RoomOptions(<<RateX, RateY>>)

\* the call completed with every request answered 2xx with parsable JSON
VendorAnswered2xx ==
  /\ cPc = "done"
  /\ cOp \in {"search", "roomDetails", "hotelInfo", "hotelsInfoByDestinationId"}
  /\ cIn.transport.kind = "ok"
  /\ cOp = "roomDetails" => cIn.transport2.kind = "ok"

\* C9: whatever JSON the vendor answers with 2xx, the four service functions
\* return a result or raise AoryxClientError / AoryxServiceError, and raise no
\* other error.
C9_OnlyDeclaredErrors ==
  VendorAnswered2xx => cOut.kind \in {"ok", "AoryxClientError", "AoryxServiceError"}

ErrorCodeOf(op) ==
  CASE op = "search" -> "SEARCH_ERROR"
    [] op = "roomDetails" -> "ROOM_DETAILS_ERROR"
    [] op = "hotelInfo" -> "HOTEL_INFO_ERROR"
    [] op = "hotelsInfoByDestinationId" -> "HOTELS_INFO_ERROR"

\* the response of the operation's own endpoint
OwnResponse ==
  pascalizeKeys(IF cOp = "roomDetails" THEN cIn.transport2.data ELSE cIn.transport.data)

\* the operation's own request was answered with IsSuccess = false
FailureFlagged ==
  /\ VendorAnswered2xx
  /\ cIn.cfg = GoodCfg /\ ~InvalidSearchParams(IF cOp \in {"search", "roomDetails"}
                                                THEN cIn.params ELSE HotelParams)
  /\ cOp = "roomDetails" => cIn.transport = OkTransport(GoodSearchBody)
  /\ Prop(OwnResponse, Key.IsSuccess) = JBool(FALSE)

\* C10: a response flagged IsSuccess = false, with or without an exception
\* message, makes the operation raise AoryxServiceError with its own error code.
C10_FailureFlagRaises ==
  FailureFlagged => (cOut.kind = "AoryxServiceError" /\ cOut.code = ErrorCodeOf(cOp))

----------------------------------------------------------------------------
(* Results page (results-client.tsx): filters and sort order *)

MaxList == 3
MaxSelected == 2

ratingOptions == {5, 4, 3, 2, 1}

SortModes == {"price-asc", "price-desc", "rating-desc", "rating-asc"}

\* a hotel of the search result; prices are whole, ratings are in tenths of a
\* star so that half stars are numbers of the model
Summary(code, minPrice, rating) == [code |-> code, minPrice |-> minPrice, rating |-> rating]

HotelSummaries ==
  {Summary("a", JNum(1), JNum(45)), Summary("b", JNum(2), JNum(45)),
   Summary("c", JNull, JNum(30)), Summary("d", JNum(1), JNull),
   Summary("e", JNull, JNull), Summary("f", JNum(1), JNum(30))}

\* the positions of a slider: whole prices, step 1
SliderValues == {1, 2}

\* the lists of distinct hotels
ResultLists ==
  {hotels \in SeqsUpTo(HotelSummaries, MaxList) :
     \A i, j \in 1..Len(hotels) : hotels[i] = hotels[j] => i = j}

SearchResult(hotels) == [t |-> "result", hotels |-> hotels]

Range(min, max) == [t |-> "range", min |-> min, max |-> max]

\* result?.hotels ?? []
HotelsOf(res) == IF res.t = "null" THEN <<>> ELSE res.hotels

IsNumber(v) == v.t = "number"

\* priceBounds, lines 195-204
priceBoundsOf(res) ==
  LET prices == {HotelsOf(res)[i].minPrice.n :
                   i \in {j \in 1..Len(HotelsOf(res)) : IsNumber(HotelsOf(res)[j].minPrice)}}
  IN IF prices = {} THEN JNull
     ELSE Range(CHOOSE p \in prices : \A q \in prices : p <= q,
                CHOOSE p \in prices : \A q \in prices : p >= q)

priceBounds == priceBoundsOf(result)

priceRangeUnclamped ==
  IF priceBounds.t = "null" THEN JNull
  ELSE IF priceRangeOverride.t = "null" THEN Range(priceBounds.min, priceBounds.max)
  ELSE priceRangeOverride

\* priceRange, lines 206-223
priceRange ==
  IF priceBounds.t = "null" THEN JNull
  ELSE IF priceRangeOverride.t = "null" THEN Range(priceBounds.min, priceBounds.max)
  ELSE LET clampedMin == Max(priceBounds.min, Min(priceRangeOverride.min, priceBounds.max))
           clampedMax == Min(priceBounds.max, Max(priceRangeOverride.max, priceBounds.min))
       IN Range(Min(clampedMin, clampedMax), Max(clampedMin, clampedMax))

hasActivePriceFilter ==
  /\ priceBounds.t # "null" /\ priceRange.t # "null"
  /\ (priceRange.min > priceBounds.min \/ priceRange.max < priceBounds.max)

\* Math.floor of a rating held in tenths
FloorStars(tenths) == tenths \div 10

\* the filter callback, lines 233-247
ShownWithoutPrice(hotel) ==
  /\ (priceBounds.t # "null" /\ priceRange.t # "null" /\ IsNumber(hotel.minPrice)) =>
       ~(hotel.minPrice.n < priceRange.min \/ hotel.minPrice.n > priceRange.max)
  /\ selectedRatings # {} =>
       (IsNumber(hotel.rating) /\ FloorStars(hotel.rating.n) \in selectedRatings)

Shown(hotel) ==
  /\ (priceBounds.t # "null" /\ priceRange.t # "null") =>
       IF IsNumber(hotel.minPrice)
       THEN ~(hotel.minPrice.n < priceRange.min \/ hotel.minPrice.n > priceRange.max)
       ELSE ~hasActivePriceFilter
  /\ selectedRatings # {} =>
       (IsNumber(hotel.rating) /\ FloorStars(hotel.rating.n) \in selectedRatings)

filteredHotels == SelectSeq(HotelsOf(result), Shown)

compareNullableFlipped(a, b, direction) ==
  IF ~IsNumber(a) /\ ~IsNumber(b) THEN 0
  ELSE IF ~IsNumber(a) THEN (IF direction = "asc" THEN 1 ELSE 0 - 1)
  ELSE IF ~IsNumber(b) THEN (IF direction = "asc" THEN 0 - 1 ELSE 1)
  ELSE IF direction = "asc" THEN a.n - b.n ELSE b.n - a.n

\* compareNullable, lines 249-260
compareNullable(a, b, direction) ==
  IF ~IsNumber(a) /\ ~IsNumber(b) THEN 0
  ELSE IF ~IsNumber(a) THEN 1
  ELSE IF ~IsNumber(b) THEN 0 - 1
  ELSE IF direction = "asc" THEN a.n - b.n ELSE b.n - a.n

comparePriceRatingAscending(a, b, direction) ==
  LET priceDelta == compareNullable(a.minPrice, b.minPrice, direction)
  IN IF priceDelta # 0 THEN priceDelta ELSE compareNullable(a.rating, b.rating, "asc")

comparePrice(a, b, direction) ==
  LET priceDelta == compareNullable(a.minPrice, b.minPrice, direction)
  IN IF priceDelta # 0 THEN priceDelta ELSE compareNullable(a.rating, b.rating, "desc")

compareRating(a, b, direction) ==
  LET ratingDelta == compareNullable(a.rating, b.rating, direction)
  IN IF ratingDelta # 0 THEN ratingDelta ELSE compareNullable(a.minPrice, b.minPrice, "asc")

\* the comparator the switch on sortBy hands to sort, lines 271-284
SortComparator(a, b) ==
  CASE sortBy = "price-asc" -> comparePrice(a, b, "asc")
    [] sortBy = "price-desc" -> comparePrice(a, b, "desc")
    [] sortBy = "rating-asc" -> compareRating(a, b, "asc")
    [] OTHER -> compareRating(a, b, "desc")

\* sortedHotels, lines 225-286
sortedHotels ==
  IF Len(HotelsOf(result)) = 0 THEN <<>>
  ELSE LET filtered == filteredHotels
       IN SortStable(filtered,
                     [i \in 1..Len(filtered) |->
                        [j \in 1..Len(filtered) |->
                           SortComparator(filtered[i], filtered[j])]])

\* the filters and the sort select are rendered, lines 290 and 426
ControlsShown == Len(HotelsOf(result)) > 0

\* the search effect clears the result, line 105
SearchStarted ==
  /\ result.t # "null"
  /\ result' = JNull
  /\ UNCHANGED <<sortBy, selectedRatings, priceRangeOverride>>
  /\ UNCHANGED exceptRes

\* the search response arrives, line 110
SearchResolved(hotels) ==
  /\ result.t = "null"
  /\ result' = SearchResult(hotels)
  /\ UNCHANGED <<sortBy, selectedRatings, priceRangeOverride>>
  /\ UNCHANGED exceptRes

\* the sort select, lines 429-438
SetSortBy(mode) ==
  /\ ControlsShown
  /\ sortBy' = mode
  /\ UNCHANGED <<result, selectedRatings, priceRangeOverride>>
  /\ UNCHANGED exceptRes

\* a rating checkbox, lines 368-383; the array of ratings holds no duplicate and
\* is only read through includes and a Set, so it is kept as a set
ToggleRating(rating) ==
  /\ ControlsShown
  /\ rating \in selectedRatings \/ Cardinality(selectedRatings) < MaxSelected
  /\ selectedRatings' =
       IF rating \in selectedRatings THEN selectedRatings \ {rating}
       ELSE selectedRatings \cup {rating}
  /\ UNCHANGED <<result, sortBy, priceRangeOverride>>
  /\ UNCHANGED exceptRes

\* the lower slider, lines 325-341
SlideMin(nextMin) ==
  /\ ControlsShown /\ priceBounds.t # "null"
  /\ nextMin \in priceBounds.min..priceBounds.max
  /\ LET currentMax == IF priceRangeOverride.t = "null" THEN priceBounds.max
                       ELSE priceRangeOverride.max
     IN priceRangeOverride' = Range(Min(nextMin, currentMax), currentMax)
  /\ UNCHANGED <<result, sortBy, selectedRatings>>
  /\ UNCHANGED exceptRes

\* the upper slider, lines 342-358
SlideMax(nextMax) ==
  /\ ControlsShown /\ priceBounds.t # "null"
  /\ nextMax \in priceBounds.min..priceBounds.max
  /\ LET currentMin == IF priceRangeOverride.t = "null" THEN priceBounds.min
                       ELSE priceRangeOverride.min
     IN priceRangeOverride' = Range(currentMin, Max(nextMax, currentMin))
  /\ UNCHANGED <<result, sortBy, selectedRatings>>
  /\ UNCHANGED exceptRes

ResultsInit == FavIdle /\ CliIdle /\ ResIdle /\ NetIdle /\ PageIdle

ResultsNext ==
  \/ SearchStarted
  \/ \E hotels \in ResultLists : SearchResolved(hotels)
  \/ \E mode \in SortModes : SetSortBy(mode)
  \/ \E rating \in ratingOptions : ToggleRating(rating)
  \/ \E price \in SliderValues : SlideMin(price)
  \/ \E price \in SliderValues : SlideMax(price)

SpecResults == ResultsInit /\ [][ResultsNext]_vars

\* the field the current sort mode orders by
SortField(hotel) == IF sortBy \in {"price-asc", "price-desc"} THEN hotel.minPrice ELSE hotel.rating

\* C8: in each sort mode, every hotel lacking the sort field comes after every
\* hotel that has it.
C8_MissingFieldLast ==
  LET sorted == sortedHotels
  IN \A i, j \in 1..Len(sorted) :
       (IsNumber(SortField(sorted[i])) /\ ~IsNumber(SortField(sorted[j]))) => i < j

C8_Witness ==
  /\ sortBy = "price-desc"
  /\ Len(sortedHotels) = 3
  /\ ~IsNumber(HotelsOf(result)[1].minPrice)
  /\ IsNumber(HotelsOf(result)[2].minPrice)
  /\ ~IsNumber(sortedHotels[3].minPrice)
  /\ IsNumber(sortedHotels[1].minPrice) /\ IsNumber(sortedHotels[2].minPrice)
  /\ sortedHotels[1].minPrice.n > sortedHotels[2].minPrice.n

----------------------------------------------------------------------------
(* coreRequest in time: the abort timer, fetch and the reading of the body *)

MaxTime == 3

Endpoints == {"Search", "RoomDetails", "HotelsInfoByDestinationId", "hotel-Info"}

\* options.timeoutMs ?? AORYX_TIMEOUT_MS, in ticks of the model's clock
Timeouts == {1, 2}

\* what the vendor does with the request: answers with a body, answers non-2xx,
\* never answers ("abort"), drops the connection or sends a body that is no JSON
CoreCalls ==
  {[endpoint |-> e, payload |-> JObj(<<>>), cfg |-> c, transport |-> t, timeoutMs |-> ms] :
     e \in Endpoints, c \in Cfgs, ms \in Timeouts,
     t \in FailTransports \cup {OkTransport(JNull), OkTransport(GoodSearchBody)}}

CoreInit ==
  /\ FavIdle /\ ResIdle /\ NetIdle /\ PageIdle
  /\ cOp = "coreRequest"
  /\ cIn \in CoreCalls
  /\ cOut = NoOutcome
  /\ cPc = "ready"

\* coreRequest leaves with the outcome it has under the given transport
Leaves(transport) ==
  /\ cOut' = coreRequest(cIn.endpoint, cIn.payload, cIn.cfg, transport)
  /\ cPc' = "done"

ClearTimeoutNever(t) == t

\* clearTimeout(timeoutId), lines 165 and 179
ClearTimeout(t) == IF t = "armed" THEN "cleared" ELSE t

\* lines 140-163: the configuration checks, setTimeout and the call of fetch
CoreStart ==
  /\ cOp = "coreRequest" /\ cPc = "ready"
  /\ IF cIn.cfg.apiKey /\ cIn.cfg.baseUrl
     THEN /\ timer' = "armed"
          /\ fetches' = fetches + 1
          /\ cPc' = "fetching"
          /\ UNCHANGED cOut
     ELSE /\ Leaves(cIn.transport)
          /\ UNCHANGED <<timer, fetches>>
  /\ UNCHANGED <<cOp, cIn, elapsed>>
  /\ UNCHANGED exceptNet

\* the timer callback, line 149: controller.abort()
TimerFires ==
  /\ cOp = "coreRequest"
  /\ timer = "armed" /\ elapsed >= cIn.timeoutMs
  /\ timer' = "fired"
  /\ UNCHANGED <<cOp, cIn, cOut, cPc, elapsed, fetches>>
  /\ UNCHANGED exceptNet

\* fetch rejects with AbortError, lines 178-188
FetchAborted ==
  /\ cOp = "coreRequest" /\ cPc = "fetching" /\ timer = "fired"
  /\ timer' = ClearTimeout(timer)
  /\ Leaves([kind |-> "abort"])
  /\ UNCHANGED <<cOp, cIn, elapsed, fetches>>
  /\ UNCHANGED exceptNet

\* fetch rejects for another reason, lines 178-193
FetchFails ==
  /\ cOp = "coreRequest" /\ cPc = "fetching" /\ timer = "armed"
  /\ cIn.transport.kind = "network"
  /\ timer' = ClearTimeout(timer)
  /\ Leaves(cIn.transport)
  /\ UNCHANGED <<cOp, cIn, elapsed, fetches>>
  /\ UNCHANGED exceptNet

\* fetch resolves with the response headers, lines 165-173
HeadersArrive ==
  /\ cOp = "coreRequest" /\ cPc = "fetching" /\ timer = "armed"
  /\ cIn.transport.kind \in {"http", "ok", "badjson"}
  /\ timer' = ClearTimeout(timer)
  /\ IF cIn.transport.kind = "http"
     THEN Leaves(cIn.transport)
     ELSE cPc' = "reading" /\ UNCHANGED cOut
  /\ UNCHANGED <<cOp, cIn, elapsed, fetches>>
  /\ UNCHANGED exceptNet

\* response.json() settles, lines 175-177 and 178-193
BodyArrives ==
  /\ cOp = "coreRequest" /\ cPc = "reading"
  /\ timer' = (IF cIn.transport.kind = "badjson" THEN ClearTimeout(timer) ELSE timer)
  /\ Leaves(cIn.transport)
  /\ UNCHANGED <<cOp, cIn, elapsed, fetches>>
  /\ UNCHANGED exceptNet

\* time passes; a due timer fires, and an aborted fetch rejects, before it does
Tick ==
  /\ cOp = "coreRequest" /\ cPc # "ready"
  /\ elapsed < MaxTime
  /\ ~(timer = "armed" /\ elapsed >= cIn.timeoutMs)
  /\ ~(timer = "fired" /\ cPc = "fetching")
  /\ elapsed' = elapsed + 1
  /\ UNCHANGED <<cOp, cIn, cOut, cPc, timer, fetches>>
  /\ UNCHANGED exceptNet

CoreNext ==
  \/ CoreStart \/ TimerFires \/ FetchAborted \/ FetchFails
  \/ HeadersArrive \/ BodyArrives \/ Tick

SpecCore == CoreInit /\ [][CoreNext]_vars

\* C11: every failure of coreRequest is an AoryxClientError that carries the
\* endpoint, and the HTTP status when the vendor answered non-2xx.
C11_ClientErrorWithEndpoint ==
  (cOp = "coreRequest" /\ cPc = "done" /\ cOut.kind # "ok") =>
    /\ cOut.kind = "AoryxClientError"
    /\ cOut.endpoint = cIn.endpoint
    /\ cOut.message = "Aoryx API error" => cOut.statusCode = cIn.transport.status

\* C12: a coreRequest call whose response has not been received in full when
\* its timeout has passed is no longer pending.
C12_NotPendingPastTimeout ==
  (cOp = "coreRequest" /\ timer # "none" /\ elapsed > cIn.timeoutMs) => cPc = "done"

\* C13: a coreRequest call issues at most one HTTP request, and once it has
\* returned or thrown its abort timer is not armed and does not fire.
C13_OneRequestTimerCleared ==
  [][/\ fetches' <= 1
     /\ cPc = "done" => (timer # "armed" /\ timer' = timer)]_vars

C13_Witness ==
  /\ cOp = "coreRequest" /\ cPc = "done"
  /\ cOut.kind = "AoryxClientError" /\ cOut.message = "network"
  /\ fetches = 1 /\ timer = "cleared"
  /\ elapsed > cIn.timeoutMs

----------------------------------------------------------------------------
(* The session id and the parameter checks of search and roomDetails *)

\* GeneralInfo.SessionId of the Search response, as text, null when blank or absent
AnsweredSessionId ==
  IF cIn.transport.kind = "ok" /\ ~Nullish(ResponseBody)
  THEN toStringValue(PropOpt(Prop(ResponseBody, Key.GeneralInfo), Key.SessionId))
  ELSE JNull

\* the Search request of the call went out and was answered 2xx with a body
SearchStepAnswered ==
  /\ cOp \in {"search", "roomDetails"} /\ cPc = "done"
  /\ cOut.sent # <<>>
  /\ cIn.transport.kind = "ok"

RoomDetailsRequests == {i \in 1..Len(cOut.sent) : cOut.sent[i].endpoint = "RoomDetails"}

\* C14 as stated: every search answered with a body other than null that has
\* no non-blank GeneralInfo.SessionId raises AoryxServiceError MISSING_SESSION_ID.
C14_MissingSessionIdAlways ==
  (SearchStepAnswered /\ cOp = "search" /\ ~Nullish(ResponseBody)
     /\ AnsweredSessionId = JNull) =>
    (cOut.kind = "AoryxServiceError" /\ cOut.code = "MISSING_SESSION_ID")

\* C14: search returns a result only for a response with a non-blank
\* GeneralInfo.SessionId, and returns that id trimmed; an answered body other
\* than null without one raises SEARCH_ERROR when it is flagged failed with a
\* message and MISSING_SESSION_ID otherwise. roomDetails sends RoomDetails only
\* as its second request, after Search gave a session id, carrying exactly that
\* id, and sends none when the Search step fails.
C14_SessionIdRequired ==
  /\ (cOp = "search" /\ cPc = "done" /\ cOut.kind = "ok") =>
       /\ AnsweredSessionId # JNull
       /\ cOut.value.sessionId = AnsweredSessionId
  /\ (SearchStepAnswered /\ cOp = "search" /\ ~Nullish(ResponseBody)
        /\ AnsweredSessionId = JNull) =>
       /\ cOut.kind = "AoryxServiceError"
       /\ cOut.code = (IF searchFailed(ResponseBody) THEN "SEARCH_ERROR"
                       ELSE "MISSING_SESSION_ID")
  /\ (cOp = "roomDetails" /\ cPc = "done") =>
       /\ \A i \in RoomDetailsRequests :
            /\ i = 2 /\ cOut.sent[1].endpoint = "Search"
            /\ AnsweredSessionId # JNull
            /\ cOut.sent[i].payload.sessionId = AnsweredSessionId
            /\ cOut.sent[i].payload.hotelCode = cIn.params.hotelCode
       /\ (AnsweredSessionId = JNull \/ searchFailed(ResponseBody)) =>
            RoomDetailsRequests = {}

C14_Witness ==
  /\ cOp = "roomDetails" /\ cPc = "done"
  /\ cIn.transport = OkTransport(GoodSearchBody)
  /\ RoomDetailsRequests = {2}
  /\ cOut.sent[2].payload.sessionId = JStr(T_s1)
  /\ cOut.kind = "ok"

ParamMissing(v) == v \in {JUndef, JNull, JStr(<<>>)}

\* the parameters the claim calls invalid
ParamsRejected ==
  \/ ParamMissing(cIn.params.destinationCode) /\ ParamMissing(cIn.params.hotelCode)
  \/ ParamMissing(cIn.params.checkInDate) \/ ParamMissing(cIn.params.checkOutDate)
  \/ cIn.params.rooms \in {JUndef, JNull, JArr(<<>>)}
  \/ cOp = "roomDetails" /\ ParamMissing(cIn.params.hotelCode)

\* C15: search and roomDetails called with both codes missing, a date missing
\* or no rooms, and roomDetails called without hotelCode, raise
\* AoryxServiceError INVALID_PARAMS and issue no outbound request.
C15_InvalidParamsNoRequest ==
  (cOp \in {"search", "roomDetails"} /\ cPc = "done" /\ ParamsRejected) =>
    /\ cOut.kind = "AoryxServiceError"
    /\ cOut.code = "INVALID_PARAMS"
    /\ cOut.sent = <<>>

C15_Witness ==
  /\ cOp = "roomDetails" /\ cPc = "done"
  /\ cIn.params = DestinationParams /\ cIn.cfg = GoodCfg
  /\ cIn.transport = OkTransport(GoodSearchBody)
  /\ cOut.kind = "AoryxServiceError" /\ cOut.code = "INVALID_PARAMS"
  /\ cOut.sent = <<>>

----------------------------------------------------------------------------
(* toNumber and toStringValue on their own *)

CoerceInit ==
  /\ FavIdle /\ ResIdle /\ NetIdle /\ PageIdle
  /\ cOp \in {"toNumber", "toStringValue"}
  /\ cIn \in MoneyValues
  /\ cOut = JUndef
  /\ cPc = "ready"

ToNumberCall ==
  /\ cPc = "ready" /\ cOp = "toNumber"
  /\ cOut' = toNumber(cIn)
  /\ cPc' = "done"
  /\ UNCHANGED <<cOp, cIn>>
  /\ UNCHANGED exceptCli

ToStringValueCall ==
  /\ cPc = "ready" /\ cOp = "toStringValue"
  /\ cOut' = toStringValue(cIn)
  /\ cPc' = "done"
  /\ UNCHANGED <<cOp, cIn>>
  /\ UNCHANGED exceptCli

CoerceNext == ToNumberCall \/ ToStringValueCall

SpecCoerce == CoerceInit /\ [][CoerceNext]_vars

\* C16: toNumber returns null for every value that is neither a finite number
\* nor a string that is a numeric literal throughout, and toStringValue returns
\* null for every value that is neither a non-blank string nor a finite number.
C16_NullForNonValues ==
  /\ (cOp = "toNumber" /\ cPc = "done"
        /\ cIn.t # "number" /\ ~(cIn.t = "string" /\ IsNumericString(cIn.s))) =>
       cOut = JNull
  /\ (cOp = "toStringValue" /\ cPc = "done"
        /\ cIn.t # "number" /\ ~(cIn.t = "string" /\ Trim(cIn.s) # <<>>)) =>
       cOut = JNull

----------------------------------------------------------------------------
(* Favorites: DELETE, and the records a request touches *)

\* the step is a DELETE request answered 200
DeleteStep ==
  /\ nStarted' = nStarted + 1
  /\ reqs'[nStarted'].pc = "done"
  /\ lastResp'.method = "DELETE" /\ lastResp'.status = 200

\* the step is a GET request for one hotel answered 200
GetOneStep ==
  /\ nStarted' = nStarted + 1
  /\ lastResp'.method = "GET" /\ lastResp'.status = 200 /\ lastResp'.hasHotel

\* C17: when an authenticated DELETE with a non-blank hotelCode completes, no
\* record for (userIdString, hotelCode) exists and the response is
\* isFavorite false; with no such record before it changes nothing and answers
\* the same; the GET for that pair that follows it answers isFavorite false.
C17_DeleteRemoves ==
  [][/\ DeleteStep =>
          /\ lastResp'.hotel # NoStr
          /\ ~Present(storage', lastResp'.uid, lastResp'.hotel)
          /\ lastResp'.isFavorite = "false"
          /\ ~Present(storage, lastResp'.uid, lastResp'.hotel) => storage' = storage
          /\ storage \ storage' \subseteq Matching(storage, lastResp'.uid, lastResp'.hotel)
          /\ storage' \subseteq storage
     /\ (GetOneStep /\ lastResp.method = "DELETE" /\ lastResp.status = 200
           /\ lastResp.uid = lastResp'.uid /\ lastResp.hotel = lastResp'.hotel) =>
          lastResp'.isFavorite = "false"]_vars

\* a POST saved a favorite into the empty collection and a DELETE removed it
C17_Witness ==
  /\ nStarted = 2 /\ nextId = 3
  /\ lastResp.method = "DELETE" /\ lastResp.status = 200
  /\ lastResp.isFavorite = "false"
  /\ storage = {}

Touched == (storage \ storage') \cup (storage' \ storage)

\* C18: a request made with user A's session deletes, creates and updates only
\* records whose userIdString is A's (trimmed) id, at most one per step, and
\* what GET and POST read of the collection is A's records only.
C18_OwnRecordsOnly ==
  [][/\ storage' # storage =>
          /\ lastResp'.method \in {"POST", "DELETE"} /\ lastResp'.status = 200
          /\ \A r \in Touched : r.userIdString = lastResp'.uid
          /\ Cardinality(storage \ storage') <= 1
          /\ Cardinality(storage' \ storage) <= 1
     /\ GetOneStep =>
          (lastResp'.isFavorite = "true") = Present(storage, lastResp'.uid, lastResp'.hotel)
     /\ (nStarted' = nStarted + 1 /\ lastResp'.method = "GET" /\ lastResp'.status = 200) =>
          /\ \A k \in 1..Len(lastResp'.items) :
               Present(storage, lastResp'.uid, lastResp'.items[k])
          /\ Len(lastResp'.items) <=
               Cardinality({r \in storage : r.userIdString = lastResp'.uid})
     /\ (nStarted' = nStarted + 1 /\ reqs'[nStarted'].pc = "deleteOne") =>
          \E r \in storage :
            /\ r.id = reqs'[nStarted'].existing
            /\ r.userIdString = reqs'[nStarted'].uid
            /\ r.hotelCode = reqs'[nStarted'].hotel]_vars

\* a DELETE removed its user's record while another user's record stayed
C18_Witness ==
  /\ nStarted = 2 /\ nextId = 3
  /\ lastResp.method = "DELETE" /\ lastResp.status = 200
  /\ Cardinality(storage) = 1
  /\ \A r \in storage : r.userIdString # lastResp.uid /\ r.hotelCode = lastResp.hotel

----------------------------------------------------------------------------
(* The load effects of the results page and of the hotel details page *)

MaxEffects == 2

\* parsed.payload and roomDetailsPayload: null, or the parameters of a search
PagePayloads == {JNull, JNum(1), JNum(2)}

\* err.message, or the page's default message
ErrorMessages == {JStr(T_err), JStr(T_x)}

\* one run of an effect: the payload it saw, how far its promise chain is and
\* the cancelled flag its cleanup sets
EffectRun(payload, pc) == [payload |-> payload, pc |-> pc, cancelled |-> FALSE]

\* a microtask is queued: the effect's own, or the next link of a settled chain
MicrotaskQueued(runs) ==
  \E i \in 1..Len(runs) : runs[i].pc \in {"queued", "resolved", "rejected"}

PageBusy ==
  \/ MicrotaskQueued(searches) \/ MicrotaskQueued(roomEffects)
  \/ MicrotaskQueued(infoEffects) \/ MicrotaskQueued(coordEffects)

MaxHotelRuns == 3

\* the effect runs of the hotel details page so far
HotelRuns == Len(roomEffects) + Len(infoEffects) + Len(coordEffects)

\* what /api/aoryx/search may answer for a payload
SearchData(payload) ==
  IF payload = JNull THEN {}
  ELSE {JNull, SearchResult(<<>>),
        SearchResult(<<Summary(IF payload.n = 1 THEN "a" ELSE "b", JNum(payload.n),
                               JNum(45))>>)}

K_rooms == <<"r", "o", "o", "m", "s">>

\* what /api/aoryx/room-details may answer
RoomsResponses ==
  {JNull, JObj(<<>>), MkObj(<<Entry(K_rooms, JArr(<<>>))>>),
   MkObj(<<Entry(K_rooms, JArr(<<JStr(T_x)>>))>>)}

searchKept == <<sortBy, selectedRatings, priceRangeOverride>>
hotelPageVars == <<roomOptions, roomsError, roomsLoading, roomEffects, hotelInfoVars>>
resultsPageVars == <<result, error, loading, searches>>

\* results page, lines 99-108: the effect runs for a new parsed.payload
SearchEffect(payload) ==
  /\ HotelRuns = 0 /\ ~PageBusy
  /\ Len(searches) < MaxEffects
  /\ searches' = Append(searches,
                        EffectRun(payload, IF payload = JNull THEN "skipped" ELSE "queued"))
  /\ UNCHANGED <<result, error, loading, searchKept, hotelPageVars>>
  /\ UNCHANGED exceptPage

\* results page, lines 102-106
SearchMicrotask(i) ==
  /\ searches[i].pc = "queued"
  /\ searches' = [searches EXCEPT ![i].pc = "pending"]
  /\ loading' = TRUE
  /\ error' = JNull
  /\ result' = JNull
  /\ UNCHANGED <<searchKept, hotelPageVars>>
  /\ UNCHANGED exceptPage

\* results page, lines 109-112
SearchThen(i, data) ==
  /\ ~PageBusy /\ searches[i].pc = "pending"
  /\ searches' = [searches EXCEPT ![i].pc = "resolved"]
  /\ result' = data
  /\ error' = JNull
  /\ UNCHANGED <<loading, searchKept, hotelPageVars>>
  /\ UNCHANGED exceptPage

SearchCatchKeepsResult(current, message) == [result |-> current, error |-> message]

\* results page, lines 113-117: what the catch callback sets
SearchCatch(current, message) == [result |-> JNull, error |-> message]

SearchRejects(i, message) ==
  /\ ~PageBusy /\ searches[i].pc = "pending"
  /\ searches' = [searches EXCEPT ![i].pc = "rejected"]
  /\ result' = SearchCatch(result, message).result
  /\ error' = SearchCatch(result, message).error
  /\ UNCHANGED <<loading, searchKept, hotelPageVars>>
  /\ UNCHANGED exceptPage

\* results page, line 118
SearchFinally(i) ==
  /\ searches[i].pc \in {"resolved", "rejected"}
  /\ searches' = [searches EXCEPT ![i].pc = "done"]
  /\ loading' = FALSE
  /\ UNCHANGED <<result, error, searchKept, hotelPageVars>>
  /\ UNCHANGED exceptPage

Unmounted == roomEffects # <<>> /\ roomEffects[Len(roomEffects)].pc = "unmounted"

CleanedUpNever(runs) == runs

\* the cleanup functions of the runs that returned one, lines 164-166
CleanedUp(runs) ==
  [i \in 1..Len(runs) |->
     IF runs[i].payload = JNull THEN runs[i] ELSE [runs[i] EXCEPT !.cancelled = TRUE]]

\* hotel page, lines 134-146: the cleanup of the run before, then the effect
RoomsEffect(payload) ==
  /\ searches = <<>> /\ ~PageBusy /\ ~Unmounted
  /\ Len(roomEffects) < MaxEffects /\ HotelRuns < MaxHotelRuns
  /\ roomEffects' =
       Append(CleanedUp(roomEffects),
              EffectRun(payload, IF payload = JNull THEN "skipped" ELSE "queued"))
  /\ UNCHANGED <<roomOptions, roomsError, roomsLoading, resultsPageVars, searchKept>>
  /\ UNCHANGED hotelInfoVars
  /\ UNCHANGED exceptPage

\* hotel page unmounts: the cleanup of the last run
RoomsUnmount ==
  /\ HotelRuns > 0 /\ ~PageBusy /\ ~Unmounted
  /\ Len(roomEffects) < MaxEffects /\ HotelRuns < MaxHotelRuns
  /\ roomEffects' = Append(CleanedUp(roomEffects), EffectRun(JNull, "unmounted"))
  /\ infoEffects' = CleanedUp(infoEffects)
  /\ coordEffects' = CleanedUp(coordEffects)
  /\ UNCHANGED <<roomOptions, roomsError, roomsLoading, resultsPageVars, searchKept>>
  /\ UNCHANGED <<pageHotelInfo, hotelError, fallbackCoordinates>>
  /\ UNCHANGED exceptPage

\* hotel page, lines 138-144
RoomsMicrotask(i) ==
  /\ roomEffects[i].pc = "queued"
  /\ roomEffects' = [roomEffects EXCEPT ![i].pc = "pending"]
  /\ IF ~roomEffects[i].cancelled
     THEN /\ roomsLoading' = TRUE
          /\ roomsError' = JNull
          /\ roomOptions' = JArr(<<>>)
     ELSE UNCHANGED <<roomsLoading, roomsError, roomOptions>>
  /\ UNCHANGED <<resultsPageVars, searchKept, hotelInfoVars>>
  /\ UNCHANGED exceptPage

\* hotel page, lines 153-159: what the catch callback does
RoomsCatch(i, message) ==
  /\ roomEffects' = [roomEffects EXCEPT ![i].pc = "rejected"]
  /\ IF ~roomEffects[i].cancelled
     THEN /\ roomsError' = message
          /\ roomOptions' = JArr(<<>>)
     ELSE UNCHANGED <<roomsError, roomOptions>>

\* hotel page, lines 147-152; reading response.rooms of a null response throws
\* inside the callback, which the catch callback then handles
RoomsThen(i, response) ==
  /\ ~PageBusy /\ roomEffects[i].pc = "pending"
  /\ IF roomEffects[i].cancelled
     THEN /\ roomEffects' = [roomEffects EXCEPT ![i].pc = "resolved"]
          /\ UNCHANGED <<roomsError, roomOptions>>
     ELSE IF Nullish(response)
     THEN RoomsCatch(i, JStr(T_err))
     ELSE /\ roomEffects' = [roomEffects EXCEPT ![i].pc = "resolved"]
          /\ roomOptions' = Coalesce(<<Prop(response, K_rooms), JArr(<<>>)>>)
          /\ roomsError' = JNull
  /\ UNCHANGED <<roomsLoading, resultsPageVars, searchKept, hotelInfoVars>>
  /\ UNCHANGED exceptPage

RoomsRejects(i, message) ==
  /\ ~PageBusy /\ roomEffects[i].pc = "pending"
  /\ RoomsCatch(i, message)
  /\ UNCHANGED <<roomsLoading, resultsPageVars, searchKept, hotelInfoVars>>
  /\ UNCHANGED exceptPage

\* hotel page, lines 160-162
RoomsFinally(i) ==
  /\ roomEffects[i].pc \in {"resolved", "rejected"}
  /\ roomEffects' = [roomEffects EXCEPT ![i].pc = "done"]
  /\ roomsLoading' = (IF roomEffects[i].cancelled THEN roomsLoading ELSE FALSE)
  /\ UNCHANGED <<roomOptions, roomsError, resultsPageVars, searchKept, hotelInfoVars>>
  /\ UNCHANGED exceptPage

PagesInit == FavIdle /\ CliIdle /\ ResIdle /\ NetIdle /\ PageIdle

PagesNext ==
  \/ \E payload \in PagePayloads : SearchEffect(payload)
  \/ \E i \in 1..Len(searches) : SearchMicrotask(i)
  \/ \E i \in 1..Len(searches) : \E data \in SearchData(searches[i].payload) :
       SearchThen(i, data)
  \/ \E i \in 1..Len(searches) : \E message \in ErrorMessages : SearchRejects(i, message)
  \/ \E i \in 1..Len(searches) : SearchFinally(i)
  \/ \E payload \in PagePayloads : RoomsEffect(payload)
  \/ RoomsUnmount
  \/ \E i \in 1..Len(roomEffects) : RoomsMicrotask(i)
  \/ \E i \in 1..Len(roomEffects) : \E response \in RoomsResponses : RoomsThen(i, response)
  \/ \E i \in 1..Len(roomEffects) : \E message \in ErrorMessages : RoomsRejects(i, message)
  \/ \E i \in 1..Len(roomEffects) : RoomsFinally(i)

SpecPages == PagesInit /\ [][PagesNext]_vars

\* C19: on the results page error and result are never both non-null, and on
\* the hotel details page a non-null roomsError comes with empty roomOptions,
\* in whatever order requests are started and their outcomes arrive.
C19_DataOrError ==
  /\ ~(error # JNull /\ result # JNull)
  /\ roomsError # JNull => roomOptions = JArr(<<>>)

\* an earlier search resolved after a later one was started, then the later failed
C19_Witness ==
  /\ Len(searches) = 2
  /\ searches[1].pc = "done" /\ searches[2].pc = "rejected"
  /\ error # JNull /\ result = JNull
  /\ loading = FALSE

----------------------------------------------------------------------------
(* The known places of the room list *)

\* the records a source holds: those of an array, or the single object itself
RecordsOf(source) ==
  IF source.t = "array" THEN SelectSeq(source.a, isRecord)
  ELSE IF isRecord(source) THEN <<source>>
  ELSE <<>>

RoomDetailRecords == RecordsOf(PropOpt(Prop(cIn, Key.RoomDetails), Key.RoomDetail))

HotelRoomRecords == RecordsOf(PropOpt(Prop(cIn, Key.HotelRooms), Key.HotelRoom))

RoomsRecords ==
  RecordsOf(IF Prop(cIn, Key.Rooms).t = "array" THEN Prop(cIn, Key.Rooms)
            ELSE PropOpt(Prop(cIn, Key.Rooms), Key.Room))

\* C20: normalizeRoomOptions builds the options from the records of
\* RoomDetails.RoomDetail, else of HotelRooms.HotelRoom, else of Rooms.Room (or
\* Rooms itself when an array), a single object counting as a list of one; the
\* array scanner supplies them only when all three hold no record, and a later
\* source never replaces an earlier one that holds a record.
C20_OrderedRoomSources ==
  (cOp = "normalizeRoomOptions" /\ cPc = "done" /\ ~Nullish(cIn)) =>
    cOut = RoomOptions(IF RoomDetailRecords # <<>> THEN RoomDetailRecords
                       ELSE IF HotelRoomRecords # <<>> THEN HotelRoomRecords
                       ELSE IF RoomsRecords # <<>> THEN RoomsRecords
                       ELSE findRoomCandidates(cIn))

\* RoomDetail holds no record, HotelRoom is a single object and wins over Rooms
C20_Witness ==
  /\ cOp = "normalizeRoomOptions" /\ cPc = "done"
  /\ Prop(Prop(cIn, Key.RoomDetails), Key.RoomDetail) = JArr(<<JStr(T_x)>>)
  /\ isRecord(Prop(Prop(cIn, Key.HotelRooms), Key.HotelRoom))
  /\ Len(RoomsRecords) = 2
  /\ cOut = RoomOptions(HotelRoomRecords)
  /\ cOut # RoomOptions(RoomsRecords)
  /\ findRoomCandidates(cIn) # <<>>

----------------------------------------------------------------------------
(* normalizeParentDestinationId *)

DestinationIdChars == {"1", "6", "-", " "}

\* rawId?: string: absent, or any string
RawDestinationIds ==
  {JUndef} \cup {JStr(str) : str \in UNION {[1..k -> DestinationIdChars] : k \in 0..MaxStrLen}}

normalizeParentDestinationIdAlwaysAppends(rawId) ==
  IF ~Truthy(rawId) THEN JNull
  ELSE IF Trim(rawId.s) = <<>> THEN JNull
  ELSE JStr(Trim(rawId.s) \o <<"-", "0">>)

\* normalizeParentDestinationId, lines 651-663
normalizeParentDestinationId(rawId) ==
  IF ~Truthy(rawId) THEN JNull
  ELSE LET trimmed == Trim(rawId.s)
       IN IF trimmed = <<>> THEN JNull
          ELSE IF Includes(trimmed, <<"-">>) THEN JStr(trimmed)
          ELSE JStr(trimmed \o <<"-", "0">>)

DestinationIdInit ==
  /\ FavIdle /\ ResIdle /\ NetIdle /\ PageIdle
  /\ cOp = "normalizeParentDestinationId"
  /\ cIn \in RawDestinationIds
  /\ cOut = JUndef
  /\ cPc = "ready"

\* the function applied to the raw id
NormalizeDestinationIdCall ==
  /\ cOp = "normalizeParentDestinationId" /\ cPc = "ready"
  /\ cOut' = normalizeParentDestinationId(cIn)
  /\ cPc' = "done"
  /\ UNCHANGED <<cOp, cIn>>
  /\ UNCHANGED exceptCli

\* the function applied to its own non-null result
NormalizeDestinationIdAgain ==
  /\ cOp = "normalizeParentDestinationId" /\ cPc = "done"
  /\ cOut # JNull
  /\ cIn' = cOut
  /\ cOut' = normalizeParentDestinationId(cOut)
  /\ cPc' = "again"
  /\ UNCHANGED cOp
  /\ UNCHANGED exceptCli

DestinationIdNext == NormalizeDestinationIdCall \/ NormalizeDestinationIdAgain

SpecDestinationId == DestinationIdInit /\ [][DestinationIdNext]_vars

HasDash(str) == \E i \in 1..Len(str) : str[i] = "-"

\* C21: normalizeParentDestinationId returns null for an absent or blank id,
\* otherwise the trimmed id, with "-0" appended exactly when it has no "-";
\* applied to its own non-null result it returns that result.
C21_DestinationIdNormalized ==
  /\ (cOp = "normalizeParentDestinationId" /\ cPc = "done") =>
       IF cIn = JUndef \/ \A i \in 1..Len(cIn.s) : cIn.s[i] = " "
       THEN cOut = JNull
       ELSE /\ cOut.t = "string" /\ HasDash(cOut.s)
            /\ Head(cOut.s) # " " /\ cOut.s[Len(cOut.s)] # " "
            /\ cOut.s = Trim(cIn.s) \o (IF HasDash(cIn.s) THEN <<>> ELSE <<"-", "0">>)
  /\ (cOp = "normalizeParentDestinationId" /\ cPc = "again") => cOut = cIn

\* an id without "-" got "-0" appended once, and only once
C21_Witness ==
  /\ cOp = "normalizeParentDestinationId" /\ cPc = "again"
  /\ cOut = JStr(<<"1", "1", "-", "0">>)

----------------------------------------------------------------------------
(* Results page: which search the displayed result answers *)

\* the runs of the search effect that started a request
StartedSearches == {i \in 1..Len(searches) : searches[i].payload # JNull}

\* the most recently started search request
NewestSearch == CHOOSE i \in StartedSearches : \A j \in StartedSearches : j <= i

\* C22: whenever loading is false and result is non-null, and no callback is
\* waiting in the microtask queue, the most recently started search has been
\* answered and result is its response; loading is not false while that search
\* is still in flight.
C22_NewestResponseShown ==
  /\ (loading = FALSE /\ result # JNull /\ ~PageBusy) =>
       /\ searches[NewestSearch].pc \in {"resolved", "done"}
       /\ result \in SearchData(searches[NewestSearch].payload)
  /\ (StartedSearches # {} /\ searches[NewestSearch].pc = "pending") => loading = TRUE

----------------------------------------------------------------------------
(* Hotel details page: the hotel-info and coordinates effects *)

\* params.code: absent, or the hotel's code
HotelCodes == {JUndef, JStr(T_h1)}

HotelInfoOf(lat, lon) == [t |-> "hotelInfo", lat |-> lat, lon |-> lon]

\* what /api/aoryx/hotel-info may answer: null, or a hotel with or without geoCode
HotelInfoAnswers == {JNull, HotelInfoOf(JNum(1), JNum(2)), HotelInfoOf(JNull, JNum(2))}

\* the coordinates found for the hotel among the destination's hotels, or null
CoordinateAnswers == {JNull, [t |-> "coordinates", lat |-> JNum(3), lon |-> JNum(4)]}

\* toFinite, lines 14-16
toFinite(value) == IF value.t = "number" THEN value ELSE JNull

\* hotel page, lines 58-60 and 69-93: the cleanup of the run before, then the effect
InfoEffect(hotelCode) ==
  /\ searches = <<>> /\ ~PageBusy /\ ~Unmounted
  /\ Len(infoEffects) < MaxEffects /\ HotelRuns < MaxHotelRuns
  /\ infoEffects' = Append(CleanedUp(infoEffects), EffectRun(hotelCode, "queued"))
  /\ UNCHANGED <<pageHotelInfo, hotelError, fallbackCoordinates, coordEffects>>
  /\ UNCHANGED <<roomOptions, roomsError, roomsLoading, roomEffects>>
  /\ UNCHANGED <<resultsPageVars, searchKept>>
  /\ UNCHANGED exceptPage

\* what a callback of the hotel-info effect writes unless its run is cancelled
InfoWrites(i, info, message, coordinates) ==
  IF ~infoEffects[i].cancelled
  THEN /\ pageHotelInfo' = info
       /\ hotelError' = message
       /\ fallbackCoordinates' = coordinates
  ELSE UNCHANGED <<pageHotelInfo, hotelError, fallbackCoordinates>>

\* hotel page, lines 61-67
InfoMicrotask(i) ==
  /\ infoEffects[i].pc = "queued"
  /\ infoEffects' =
       [infoEffects EXCEPT ![i].pc =
          IF Truthy(infoEffects[i].payload) THEN "pending" ELSE "skipped"]
  /\ InfoWrites(i, JNull, JNull, JNull)
  /\ UNCHANGED coordEffects
  /\ UNCHANGED <<roomOptions, roomsError, roomsLoading, roomEffects>>
  /\ UNCHANGED <<resultsPageVars, searchKept>>
  /\ UNCHANGED exceptPage

\* hotel page, lines 76-81
InfoThen(i, info) ==
  /\ ~PageBusy /\ infoEffects[i].pc = "pending"
  /\ infoEffects' = [infoEffects EXCEPT ![i].pc = "done"]
  /\ InfoWrites(i, info, JNull, fallbackCoordinates)
  /\ UNCHANGED coordEffects
  /\ UNCHANGED <<roomOptions, roomsError, roomsLoading, roomEffects>>
  /\ UNCHANGED <<resultsPageVars, searchKept>>
  /\ UNCHANGED exceptPage

\* hotel page, lines 82-88
InfoCatch(i, message) ==
  /\ ~PageBusy /\ infoEffects[i].pc = "pending"
  /\ infoEffects' = [infoEffects EXCEPT ![i].pc = "done"]
  /\ InfoWrites(i, JNull, message, fallbackCoordinates)
  /\ UNCHANGED coordEffects
  /\ UNCHANGED <<roomOptions, roomsError, roomsLoading, roomEffects>>
  /\ UNCHANGED <<resultsPageVars, searchKept>>
  /\ UNCHANGED exceptPage

\* line 100: no request when a code is missing or hotelInfo has both coordinates
CoordinatesKnown ==
  /\ pageHotelInfo # JNull
  /\ toFinite(pageHotelInfo.lat) # JNull /\ toFinite(pageHotelInfo.lon) # JNull

\* hotel page, lines 95-112: the cleanup of the run before, then the effect;
\* codes says whether hotelCode and destinationCode are both there
CoordsEffect(codes) ==
  /\ searches = <<>> /\ ~PageBusy /\ ~Unmounted
  /\ Len(coordEffects) < MaxEffects /\ HotelRuns < MaxHotelRuns
  /\ coordEffects' =
       Append(CleanedUp(coordEffects),
              IF codes /\ ~CoordinatesKnown THEN EffectRun(JStr(T_h1), "pending")
              ELSE EffectRun(JUndef, "queued"))
  /\ UNCHANGED <<pageHotelInfo, hotelError, fallbackCoordinates, infoEffects>>
  /\ UNCHANGED <<roomOptions, roomsError, roomsLoading, roomEffects>>
  /\ UNCHANGED <<resultsPageVars, searchKept>>
  /\ UNCHANGED exceptPage

\* hotel page, lines 101-103: this microtask does not look at cancelled
CoordsMicrotask(i) ==
  /\ coordEffects[i].pc = "queued"
  /\ coordEffects' = [coordEffects EXCEPT ![i].pc = "skipped"]
  /\ fallbackCoordinates' = JNull
  /\ UNCHANGED <<pageHotelInfo, hotelError, infoEffects>>
  /\ UNCHANGED <<roomOptions, roomsError, roomsLoading, roomEffects>>
  /\ UNCHANGED <<resultsPageVars, searchKept>>
  /\ UNCHANGED exceptPage

\* hotel page, lines 113-122: the response, or the failure (coordinates null)
CoordsSettles(i, coordinates) ==
  /\ ~PageBusy /\ coordEffects[i].pc = "pending"
  /\ coordEffects' = [coordEffects EXCEPT ![i].pc = "done"]
  /\ fallbackCoordinates' =
       (IF coordEffects[i].cancelled THEN fallbackCoordinates ELSE coordinates)
  /\ UNCHANGED <<pageHotelInfo, hotelError, infoEffects>>
  /\ UNCHANGED <<roomOptions, roomsError, roomsLoading, roomEffects>>
  /\ UNCHANGED <<resultsPageVars, searchKept>>
  /\ UNCHANGED exceptPage

HotelNext ==
  \/ \E hotelCode \in HotelCodes : InfoEffect(hotelCode)
  \/ \E i \in 1..Len(infoEffects) : InfoMicrotask(i)
  \/ \E i \in 1..Len(infoEffects) : \E info \in HotelInfoAnswers : InfoThen(i, info)
  \/ \E i \in 1..Len(infoEffects) : \E message \in ErrorMessages : InfoCatch(i, message)
  \/ \E codes \in BOOLEAN : CoordsEffect(codes)
  \/ \E i \in 1..Len(coordEffects) : CoordsMicrotask(i)
  \/ \E i \in 1..Len(coordEffects) : \E coordinates \in CoordinateAnswers :
       CoordsSettles(i, coordinates)
  \/ \E payload \in PagePayloads : RoomsEffect(payload)
  \/ RoomsUnmount
  \/ \E i \in 1..Len(roomEffects) : RoomsMicrotask(i)
  \/ \E i \in 1..Len(roomEffects) : \E response \in RoomsResponses : RoomsThen(i, response)
  \/ \E i \in 1..Len(roomEffects) : \E message \in ErrorMessages : RoomsRejects(i, message)
  \/ \E i \in 1..Len(roomEffects) : RoomsFinally(i)

SpecHotel == PagesInit /\ [][HotelNext]_vars

\* the state the three effects write
hotelState ==
  <<pageHotelInfo, hotelError, fallbackCoordinates, roomOptions, roomsError, roomsLoading>>

\* in this step a response, failure or finally callback of run i ran
SettledIn(before, after, i) ==
  /\ before[i].pc \in {"pending", "resolved", "rejected"}
  /\ after[i].pc # before[i].pc

\* in this step a callback of the current, not cleaned-up run of the effect ran
CurrentRan(before, after) ==
  /\ before # <<>>
  /\ ~before[Len(before)].cancelled
  /\ after[Len(before)].pc # before[Len(before)].pc

\* C23: the response, failure or finally callback of a request whose effect
\* has been cleaned up writes none of hotelInfo, error, fallbackCoordinates,
\* roomOptions, roomsError and roomsLoading, and a step that writes one of them
\* is a callback of the current run of an effect.
C23_CleanedUpWritesNothing ==
  [][/\ \A i \in 1..Len(infoEffects) :
          (infoEffects[i].cancelled /\ SettledIn(infoEffects, infoEffects', i)) =>
            UNCHANGED hotelState
     /\ \A i \in 1..Len(coordEffects) :
          (coordEffects[i].cancelled /\ SettledIn(coordEffects, coordEffects', i)) =>
            UNCHANGED hotelState
     /\ \A i \in 1..Len(roomEffects) :
          (roomEffects[i].cancelled /\ SettledIn(roomEffects, roomEffects', i)) =>
            UNCHANGED hotelState
     /\ hotelState' # hotelState =>
          \/ CurrentRan(infoEffects, infoEffects')
          \/ CurrentRan(coordEffects, coordEffects')
          \/ CurrentRan(roomEffects, roomEffects')]_vars

\* the page unmounted while its requests were in flight; both then settled
\* and roomsLoading and hotelInfo kept what the microtasks had set
C23_Witness ==
  /\ Unmounted
  /\ Len(roomEffects) = 2 /\ roomEffects[1].cancelled /\ roomEffects[1].pc = "done"
  /\ Len(infoEffects) = 1 /\ infoEffects[1].cancelled /\ infoEffects[1].pc = "done"
  /\ roomsLoading = TRUE /\ roomOptions = JArr(<<>>) /\ roomsError = JNull
  /\ pageHotelInfo = JNull /\ hotelError = JNull

----------------------------------------------------------------------------
(* Results page: the price range, the filter and the secondary sort key *)

\* C24: whenever priceBounds is non-null the effective priceRange lies within
\* it, priceBounds.min <= priceRange.min <= priceRange.max <= priceBounds.max,
\* and the stored priceRangeOverride always has min <= max.
C24_PriceRangeWithinBounds ==
  /\ priceBounds.t # "null" =>
       /\ priceRange.t # "null"
       /\ priceBounds.min <= priceRange.min
       /\ priceRange.min <= priceRange.max
       /\ priceRange.max <= priceBounds.max
  /\ priceRangeOverride.t # "null" => priceRangeOverride.min <= priceRangeOverride.max

\* the result was replaced and the override set before lies below the new bounds
C24_Witness ==
  /\ priceRangeOverride.t # "null" /\ priceBounds.t # "null"
  /\ priceRangeOverride.max < priceBounds.min
  /\ priceRange = Range(priceBounds.min, priceBounds.min)

IsListed(hotel, list) == \E j \in 1..Len(list) : list[j] = hotel

FullRange ==
  priceBounds.t = "null" \/ priceRange = Range(priceBounds.min, priceBounds.max)

SameField(x, y) ==
  \/ ~IsNumber(x) /\ ~IsNumber(y)
  \/ IsNumber(x) /\ IsNumber(y) /\ x.n = y.n

\* C26: in the price orders hotels with equal minPrice (or both lacking it)
\* are ordered by rating descending, in the rating orders hotels with equal
\* rating (or both lacking it) are ordered by minPrice ascending, hotels
\* lacking the secondary key last; sortedHotels is a permutation of the
\* filtered hotels.
C26_SecondaryKeyAndPermutation ==
  LET sorted == sortedHotels
      filtered == filteredHotels
  IN
  /\ \A i, j \in 1..Len(sorted) :
       i < j =>
         LET x == sorted[i]
             y == sorted[j]
         IN /\ (sortBy \in {"price-asc", "price-desc"} /\ SameField(x.minPrice, y.minPrice)) =>
                 (IsNumber(y.rating) => (IsNumber(x.rating) /\ x.rating.n >= y.rating.n))
            /\ (sortBy \in {"rating-asc", "rating-desc"} /\ SameField(x.rating, y.rating)) =>
                 (IsNumber(y.minPrice) => (IsNumber(x.minPrice) /\ x.minPrice.n <= y.minPrice.n))
  /\ Len(sorted) = Len(filtered)
  /\ \A i \in 1..Len(filtered) :
       Cardinality({j \in 1..Len(sorted) : sorted[j] = filtered[i]}) = 1

\* the sort moved hotels, and a tie on the price was settled by two different
\* ratings
C26_Witness ==
  /\ sortedHotels # filteredHotels
  /\ sortBy \in {"price-asc", "price-desc"}
  /\ \E i, j \in 1..Len(sortedHotels) :
       /\ i < j
       /\ SameField(sortedHotels[i].minPrice, sortedHotels[j].minPrice)
       /\ IsNumber(sortedHotels[i].rating) /\ IsNumber(sortedHotels[j].rating)
       /\ sortedHotels[i].rating.n > sortedHotels[j].rating.n

----------------------------------------------------------------------------
(* The favorites list and its limit *)

\* the limit the list is said to use: the parameter clamped to 1..48, and 24
\* when the parameter is absent or no number
ClaimedLimit(p) == IF p.k = "num" THEN clampLimit(p.n, 1, 48) ELSE 24

\* C27: a list GET (no hotelCode) of a signed-in user returns the user's
\* records, most recently saved first, up to the limit: as many as the user has
\* but no more than the limit parameter clamped to 1..48, or 24 when the
\* parameter is absent or not a number.
C27_ListUpToLimit ==
  [][\A sess \in SessionIds, raw \in RawHotelCodes, lim \in LimitParams :
       (Truthy(sess) /\ parseString(raw) = NoStr /\ Get(sess, raw, lim)) =>
         LET mine == {r \in storage : r.userIdString = normalizeUserId(sess).userIdString}
             items == lastResp'.items
         IN /\ Len(items) = Min(ClaimedLimit(lim), Cardinality(mine))
            /\ \A k \in 1..Len(items) :
                 \E r \in mine :
                   /\ r.hotelCode = items[k]
                   /\ Cardinality({q \in mine : q.savedAt > r.savedAt}) = k - 1]_vars

----------------------------------------------------------------------------
(* useAmdRates (the exchange-rate hook) *)

MaxAmdRuns == 2

\* what JSON can carry under USD and EUR
RateValues == {JNum(400), JNull, JStr(<<"4", "0", "0">>)}

AmdRates(usd, eur) == [t |-> "rates", USD |-> usd, EUR |-> eur]

\* the bodies getJson can resolve with
RatesData == {JNull} \cup {AmdRates(usd, eur) : usd, eur \in RateValues}

\* Number.isFinite: a number, and neither NaN nor an infinity
NumberIsFinite(v) == v.t = "number"

\* one run of the effect: its closure variable active, the settled outcome of
\* its request, and how far its promise chain has run
AmdRun == [active |-> TRUE, pc |-> "pending", ok |-> FALSE, data |-> JNull]

\* the effect body, lines 31-35: runs at mount, and again after a cleanup when
\* the component is mounted anew with its state kept
AmdEffect ==
  /\ Len(amdEffects) < MaxAmdRuns
  /\ \A i \in 1..Len(amdEffects) : ~amdEffects[i].active
  /\ amdLoading' = TRUE
  /\ amdEffects' = Append(amdEffects, AmdRun)
  /\ UNCHANGED rates
  /\ UNCHANGED exceptAmd

\* the cleanup, lines 52-54
AmdCleanup ==
  /\ \E i \in 1..Len(amdEffects) : amdEffects[i].active
  /\ amdEffects' = [i \in 1..Len(amdEffects) |-> [amdEffects[i] EXCEPT !.active = FALSE]]
  /\ UNCHANGED <<rates, amdLoading>>
  /\ UNCHANGED exceptAmd

\* the promise of getJson is fulfilled with a body
AmdResolves(i, data) ==
  /\ i \in 1..Len(amdEffects) /\ amdEffects[i].pc = "pending"
  /\ amdEffects' = [amdEffects EXCEPT ![i] = [@ EXCEPT !.pc = "settled", !.ok = TRUE,
                                                !.data = data]]
  /\ UNCHANGED <<rates, amdLoading>>
  /\ UNCHANGED exceptAmd

\* the promise of getJson is rejected
AmdRejects(i) ==
  /\ i \in 1..Len(amdEffects) /\ amdEffects[i].pc = "pending"
  /\ amdEffects' = [amdEffects EXCEPT ![i] = [@ EXCEPT !.pc = "settled", !.ok = FALSE]]
  /\ UNCHANGED <<rates, amdLoading>>
  /\ UNCHANGED exceptAmd

AmdThenUnchecked(i) ==
  /\ i \in 1..Len(amdEffects)
  /\ amdEffects[i].pc = "settled" /\ amdEffects[i].ok
  /\ amdEffects' = [amdEffects EXCEPT ![i] = [@ EXCEPT !.pc = "handled"]]
  /\ rates' = IF ~amdEffects[i].active THEN rates
              ELSE IF amdEffects[i].data.t = "rates"
              THEN AmdRates(amdEffects[i].data.USD, amdEffects[i].data.EUR)
              ELSE JNull
  /\ UNCHANGED amdLoading
  /\ UNCHANGED exceptAmd

\* .then, lines 36-43
AmdThen(i) ==
  /\ i \in 1..Len(amdEffects)
  /\ amdEffects[i].pc = "settled" /\ amdEffects[i].ok
  /\ amdEffects' = [amdEffects EXCEPT ![i] = [@ EXCEPT !.pc = "handled"]]
  /\ LET data == amdEffects[i].data
     IN rates' = IF ~amdEffects[i].active THEN rates
                 ELSE IF data.t = "rates" /\ NumberIsFinite(data.USD) /\ NumberIsFinite(data.EUR)
                 THEN AmdRates(data.USD, data.EUR)
                 ELSE JNull
  /\ UNCHANGED amdLoading
  /\ UNCHANGED exceptAmd

\* .catch, lines 44-47
AmdCatch(i) ==
  /\ i \in 1..Len(amdEffects)
  /\ amdEffects[i].pc = "settled" /\ ~amdEffects[i].ok
  /\ amdEffects' = [amdEffects EXCEPT ![i] = [@ EXCEPT !.pc = "handled"]]
  /\ rates' = IF amdEffects[i].active THEN JNull ELSE rates
  /\ UNCHANGED amdLoading
  /\ UNCHANGED exceptAmd

\* .finally, lines 48-50
AmdFinally(i) ==
  /\ i \in 1..Len(amdEffects)
  /\ amdEffects[i].pc = "handled"
  /\ amdEffects' = [amdEffects EXCEPT ![i] = [@ EXCEPT !.pc = "done"]]
  /\ amdLoading' = IF amdEffects[i].active THEN FALSE ELSE amdLoading
  /\ UNCHANGED rates
  /\ UNCHANGED exceptAmd

AmdInit == FavIdle /\ CliIdle /\ ResIdle /\ NetIdle /\ PageIdle

AmdNext ==
  \/ AmdEffect
  \/ AmdCleanup
  \/ \E i \in 1..MaxAmdRuns, data \in RatesData : AmdResolves(i, data)
  \/ \E i \in 1..MaxAmdRuns : AmdRejects(i)
  \/ \E i \in 1..MaxAmdRuns : AmdThen(i)
  \/ \E i \in 1..MaxAmdRuns : AmdCatch(i)
  \/ \E i \in 1..MaxAmdRuns : AmdFinally(i)

SpecAmd == AmdInit /\ [][AmdNext]_vars

\* a settled promise's reactions are jobs of the microtask queue, which the
\* event loop drains: each of them runs once it is queued
SpecAmdFair ==
  /\ SpecAmd
  /\ \A i \in 1..MaxAmdRuns :
       WF_vars(AmdThen(i)) /\ WF_vars(AmdCatch(i)) /\ WF_vars(AmdFinally(i))

\* rates holds the USD and EUR of a fulfilled request, both finite
C28_RatesFinite ==
  rates # JNull =>
    /\ NumberIsFinite(rates.USD) /\ NumberIsFinite(rates.EUR)
    /\ \E i \in 1..Len(amdEffects) :
         /\ amdEffects[i].ok /\ amdEffects[i].pc \in {"handled", "done"}
         /\ amdEffects[i].data = rates

\* a step of the promise chain of a run whose cleanup has run
C28_StepOfCleanedUpRun ==
  \E i \in 1..Len(amdEffects) :
    /\ ~amdEffects[i].active
    /\ amdEffects'[i].pc # amdEffects[i].pc

\* the request of run i has succeeded or failed
C28_Settled(i) ==
  IF i <= Len(amdEffects) THEN amdEffects[i].pc = "settled" ELSE FALSE

\* the component was unmounted after run i
C28_CleanedUp(i) ==
  IF i <= Len(amdEffects) THEN ~amdEffects[i].active ELSE FALSE

\* C28: rates is non-null only if the fetched USD and EUR are both finite
\* numbers; while the component stays mounted, loading becomes false after the
\* request has succeeded or failed; and once the component is unmounted the
\* request's completion changes neither rates nor loading.
C28_RatesLoadingLifecycle ==
  /\ []C28_RatesFinite
  /\ \A i \in 1..MaxAmdRuns :
       C28_Settled(i) ~> (amdLoading = FALSE \/ C28_CleanedUp(i))
  /\ [][C28_StepOfCleanedUpRun => (rates' = rates /\ amdLoading' = amdLoading)]_vars

\* a first run was cleaned up and its request completed, and a second run has
\* delivered rates and cleared loading
C28_Witness ==
  /\ Len(amdEffects) = 2
  /\ ~amdEffects[1].active /\ amdEffects[1].pc = "done"
  /\ amdEffects[2].active /\ amdEffects[2].pc = "done" /\ amdEffects[2].ok
  /\ rates # JNull /\ amdLoading = FALSE

----------------------------------------------------------------------------
(* calculateBookingTotal (lib/booking-total.ts) *)

MaxBookingRooms == 3

\* JavaScript numbers are binary floating point: a sum is rounded to the
\* nearest number with a significand of MantissaBits bits, ties to even. The
\* format is scaled down from the 53 bits of a double; amounts are non-negative
\* integers in it.
MantissaBits == 3

RECURSIVE Pow2(_)
Pow2(k) == IF k = 0 THEN 1 ELSE 2 * Pow2(k - 1)

\* the spacing of the representable numbers around x
RECURSIVE UlpFrom(_, _)
UlpFrom(x, k) == IF x < Pow2(MantissaBits + k) THEN Pow2(k) ELSE UlpFrom(x, k + 1)

RoundToNearestEven(x) ==
  LET ulp == UlpFrom(x, 0)
      below == x - (x % ulp)
      above == below + ulp
  IN IF 2 * (x % ulp) < ulp THEN below
     ELSE IF 2 * (x % ulp) > ulp THEN above
     ELSE IF (below \div ulp) % 2 = 0 THEN below ELSE above

\* a + b on numbers
NumberAdd(a, b) == RoundToNearestEven(a + b)

Room(net, gross) == [price |-> [net |-> net, gross |-> gross]]

\* the prices a room can carry: amounts, NaN, or a missing value
BookingRooms ==
  {Room(net, gross) : net \in {JNum(1), JNum(8), JNaN, JUndef}, gross \in {JNum(2), JNaN}}

BookingPayloads == {[rooms |-> rooms] : rooms \in SeqsUpTo(BookingRooms, MaxBookingRooms)}

calculateBookingTotalGrossFirst(payload) ==
  LET RECURSIVE Reduce(_, _)
      Reduce(i, sum) ==
        IF i > Len(payload.rooms) THEN sum
        ELSE LET net == payload.rooms[i].price.net
                 gross == payload.rooms[i].price.gross
                 price == IF NumberIsFinite(gross) THEN gross.n
                          ELSE IF NumberIsFinite(net) THEN net.n
                          ELSE 0
             IN Reduce(i + 1, NumberAdd(sum, price))
  IN Reduce(1, 0)

\* payload.rooms.reduce((sum, room) => sum + price, 0), lines 4-14
calculateBookingTotal(payload) ==
  LET RECURSIVE Reduce(_, _)
      Reduce(i, sum) ==
        IF i > Len(payload.rooms) THEN sum
        ELSE LET net == payload.rooms[i].price.net
                 gross == payload.rooms[i].price.gross
                 price == IF NumberIsFinite(net) THEN net.n
                          ELSE IF NumberIsFinite(gross) THEN gross.n
                          ELSE 0
             IN Reduce(i + 1, NumberAdd(sum, price))
  IN Reduce(1, 0)

BookingInit ==
  /\ FavIdle /\ ResIdle /\ NetIdle /\ PageIdle
  /\ cOp = "calculateBookingTotal"
  /\ cIn \in BookingPayloads
  /\ cOut = JUndef
  /\ cPc = "ready"

\* the function applied to the payload
CalculateBookingTotalCall ==
  /\ cOp = "calculateBookingTotal" /\ cPc = "ready"
  /\ cOut' = JNum(calculateBookingTotal(cIn))
  /\ cPc' = "done"
  /\ UNCHANGED <<cOp, cIn>>
  /\ UNCHANGED exceptCli

BookingNext == CalculateBookingTotalCall

SpecBooking == BookingInit /\ [][BookingNext]_vars

\* the price of a room as the total is said to count it
ClaimedPrice(room) ==
  IF NumberIsFinite(room.price.net) THEN room.price.net.n
  ELSE IF NumberIsFinite(room.price.gross) THEN room.price.gross.n
  ELSE 0

\* the prices added up exactly
RECURSIVE ExactTotal(_)
ExactTotal(rooms) ==
  IF rooms = <<>> THEN 0 ELSE ClaimedPrice(Head(rooms)) + ExactTotal(Tail(rooms))

\* the prices added up in room order, each sum rounded
RECURSIVE RunningTotal(_)
RunningTotal(rooms) ==
  IF rooms = <<>> THEN 0
  ELSE NumberAdd(RunningTotal(SubSeq(rooms, 1, Len(rooms) - 1)),
                 ClaimedPrice(rooms[Len(rooms)]))

\* the rooms in every order
Reorderings(rooms) ==
  {[i \in 1..Len(rooms) |-> rooms[perm[i]]] :
     perm \in {f \in [1..Len(rooms) -> 1..Len(rooms)] :
                 \A i, j \in 1..Len(rooms) : f[i] = f[j] => i = j}}

BookingDone == cOp = "calculateBookingTotal" /\ cPc = "done"

\* C29 as stated: the total is the sum of the rooms' prices (net if a finite
\* number, else gross if a finite number, else 0), 0 for no rooms, and the
\* same for every order of the rooms.
C29_TotalInAnyOrder ==
  BookingDone =>
    /\ cOut = JNum(RunningTotal(cIn.rooms))
    /\ cIn.rooms = <<>> => cOut = JNum(0)
    /\ \A rooms \in Reorderings(cIn.rooms) :
         calculateBookingTotal([rooms |-> rooms]) = cOut.n

\* C29, amended: the total is the sum of the rooms' prices accumulated in room
\* order, each addition rounded; it is 0 for no rooms; it is the same for every
\* order of at most two rooms, and it is the exact sum, hence the same for
\* every order, when the exact sum needs no rounding.
C29_TotalInRoomOrder ==
  BookingDone =>
    /\ cOut = JNum(RunningTotal(cIn.rooms))
    /\ cIn.rooms = <<>> => cOut = JNum(0)
    /\ Len(cIn.rooms) <= 2 =>
         \A rooms \in Reorderings(cIn.rooms) :
           calculateBookingTotal([rooms |-> rooms]) = cOut.n
    /\ ExactTotal(cIn.rooms) <= Pow2(MantissaBits) =>
         /\ cOut = JNum(ExactTotal(cIn.rooms))
         /\ \A rooms \in Reorderings(cIn.rooms) :
              calculateBookingTotal([rooms |-> rooms]) = cOut.n

\* three rooms, one priced by its gross and one by its net, whose total was
\* rounded and comes out differently in another order
C29_Witness ==
  /\ BookingDone /\ Len(cIn.rooms) = 3
  /\ \E i \in 1..3 : ~NumberIsFinite(cIn.rooms[i].price.net)
                     /\ NumberIsFinite(cIn.rooms[i].price.gross)
  /\ \E i \in 1..3 : NumberIsFinite(cIn.rooms[i].price.net)
  /\ cOut.n # ExactTotal(cIn.rooms)
  /\ \E rooms \in Reorderings(cIn.rooms) :
       calculateBookingTotal([rooms |-> rooms]) # cOut.n

====
